---- MODULE Spec2Model ----
(***************************************************************************)
(* FinanceAI backend: the transaction store, the three model singletons    *)
(* (TransactionCategorizer, SpendingPredictor, AnomalyDetector) and the    *)
(* HTTP handlers that read and write them.                                 *)
(*                                                                         *)
(* Conventions                                                             *)
(*   - Python's Optional values are tuples: None is <<>>, a value x is     *)
(*     <<x>>.                                                              *)
(*   - amounts are whole dollars; a datetime is the number of hours since  *)
(*     Monday 2024-01-01 00:00; anomaly scores are in hundredths and       *)
(*     confidences in thousandths.                                         *)
(***************************************************************************)
EXTENDS Integers, Sequences, FiniteSets, TLC

VARIABLES
    store,             \* the Transaction table, in primary-key order
    categorizer,       \* transactions.py: categorizer singleton
    predictor,         \* predictions.py: predictor singleton
    anomaly_detector,  \* predictions.py: anomaly_detector singleton
    request_counts,    \* security.py: request_counts, client ip -> timestamps
    now,               \* the wall clock read by time.time()
    request,           \* the last request received
    categorizer_calls, \* what each predict_category call of the last request did
    response,          \* the outcome of the last request
    bulk_count         \* bulk uploads so far

vars ==
    <<store, categorizer, predictor, anomaly_detector, request_counts, now,
      request, categorizer_calls, response, bulk_count>>

----------------------------------------------------------------------------
(* Bounds of the model *)

MaxRequests == 4      \* most rate_limit_check calls in a run of the limiter
MaxBulk == 1          \* most bulk uploads
MaxStore == 20        \* most rows the store is filled with
AmountMargin == 30    \* amounts probed on each side of the two limits

----------------------------------------------------------------------------
(* Optional values and small helpers *)

None == <<>>

Some(x) == <<x>>

\* Python truthiness of an Optional[str]: None and "" are falsy
Truthy(o) == o # None /\ o[1] # ""

\* variant: `a or b` that never falls back to b
PyOr_first(a, b) == a

\* Python's `a or b` on Optional[str]
PyOr(a, b) == IF Truthy(a) THEN a ELSE b

Max2(a, b) == IF a >= b THEN a ELSE b

Range(s) == {s[i] : i \in DOMAIN s}

RECURSIVE SumSeq(_)
SumSeq(s) == IF s = <<>> THEN 0 ELSE s[1] + SumSeq(Tail(s))

\* s[:n] for n >= 0
Prefix(s, n) == IF Len(s) <= n THEN s ELSE SubSeq(s, 1, n)

\* df.tail(n)
TailN(s, n) == IF Len(s) <= n THEN s ELSE SubSeq(s, Len(s) - n + 1, Len(s))

\* ch * n
RECURSIVE Repeat(_, _)
Repeat(ch, n) == IF n <= 0 THEN "" ELSE ch \o Repeat(ch, n - 1)

----------------------------------------------------------------------------
(* security.py *)

AMOUNT_CEILING == 1000000

RATE_LIMIT == 100

RATE_WINDOW == 60

USER_ID_MAX_LEN == 50

DESCRIPTION_MAX_LEN == 200

AlnumChars == {"u", "c", "1", "2"}

NonPrintableChars == {"\t"}

\* str.replace(ch, "")
StripChar(s, ch) == SelectSeq(s, LAMBDA x : x # ch)

\* str.isalnum(): non-empty and every character alphanumeric
IsAlnum(s) == s # "" /\ Len(SelectSeq(s, LAMBDA x : x \in AlnumChars)) = Len(s)

validate_user_id(user_id) ==
    IF user_id = "" \/ Len(user_id) > USER_ID_MAX_LEN
    THEN FALSE
    ELSE IsAlnum(StripChar(StripChar(user_id, "_"), "-"))

\* "".join(chars)
RECURSIVE Join(_)
Join(chars) == IF Len(chars) = 0 THEN "" ELSE Head(chars) \o Join(Tail(chars))

sanitize_input(text, max_length) ==
    IF text = ""
    THEN ""
    ELSE Prefix(Join(SelectSeq(text, LAMBDA ch : ch \notin NonPrintableChars)), max_length)

\* variant: both limits exclusive
validate_amount_exclusive(amount) == 0 < amount /\ amount < AMOUNT_CEILING

validate_amount(amount) == 0 <= amount /\ amount <= AMOUNT_CEILING

\* the timestamps rate_limit_check keeps for a client at time t
CleanOldRequests(times, t, window) == SelectSeq(times, LAMBDA req_time : t - req_time < window)

\* variant: a rejected call records its timestamp as well
rate_limit_check_record_rejected(times, t, limit, window) ==
    <<Len(CleanOldRequests(times, t, window)) < limit,
      Append(CleanOldRequests(times, t, window), t)>>

\* rate_limit_check: <<admitted, new list of the client>>
rate_limit_check(times, t, limit, window) ==
    LET kept == CleanOldRequests(times, t, window)
    IN  IF Len(kept) >= limit
        THEN <<FALSE, kept>>
        ELSE <<TRUE, Append(kept, t)>>

----------------------------------------------------------------------------
(* ml/categorizer.py *)

categories ==
    <<"Food & Dining", "Shopping", "Transportation", "Bills & Utilities",
      "Entertainment", "Healthcare", "Travel", "Education", "Investment",
      "Income", "Transfer", "Other">>

\* the labels of create_training_data: the classes a fitted pipeline can return
TrainingLabels ==
    {"Food & Dining", "Shopping", "Transportation", "Bills & Utilities",
     "Entertainment", "Healthcare", "Income"}

\* TransactionCategorizer.model: None, the Pipeline assigned by train_model
\* before fit() has returned, or the fitted Pipeline
CategorizerModels == {"None", "unfitted", "fitted"}

\* What one call of predict_category can do: return the (label, confidence) of
\* the fitted pipeline, or raise in train_model's fit() (self.model is assigned
\* before it) or in predict/predict_proba.
\* The pipeline is the library's.  The descriptions of the model hold no
\* token of two or more letters, so the tf-idf vector is empty and the
\* naive-Bayes answer is the class priors: create_training_data has five
\* rows for each of its seven labels, predict returns the first label in
\* sorted order and predict_proba 1/7 for each (thousandths, rounded).
ClassifierOutcomes ==
    {[raised |-> "no", label |-> "Bills & Utilities", confidence |-> 143],
     [raised |-> "fit", label |-> "", confidence |-> 0],
     [raised |-> "predict", label |-> "", confidence |-> 0]}

\* the outcome recorded when predict_category is not called
NoCall == [raised |-> "no", label |-> "", confidence |-> 0]

\* variant: a fitted pipeline that may answer with a second label
PossibleOutcomes_unstable(m) ==
    {o \in ClassifierOutcomes \cup {[raised |-> "no", label |-> "Shopping", confidence |-> 600]} :
        /\ (m = "fitted") => o.raised \in {"no", "predict"}
        /\ (m = "unfitted") => o.raised = "predict"}

\* the outcomes an instance in state m can produce
PossibleOutcomes(m) ==
    {o \in ClassifierOutcomes :
        /\ (m = "fitted") => o.raised \in {"no", "predict"}
        /\ (m = "unfitted") => o.raised = "predict"}

\* variant: train_model keeps the pipeline in a local variable
predict_category_model_forget(m, outcome) == m

\* TransactionCategorizer.train_model / predict_category: self.model after a
\* call with the given outcome
predict_category_model(m, outcome) ==
    IF m # "None" THEN m
    ELSE IF outcome.raised = "fit" THEN "unfitted"
    ELSE "fitted"

\* the trace of one predict_category call on an instance in state m: the
\* description given, whether train_model ran, and how the call ended
CallRecord(m, description, outcome) ==
    [description |-> description,
     trained |-> (m = "None"),
     raised |-> outcome.raised,
     label |-> outcome.label,
     confidence |-> outcome.confidence]

----------------------------------------------------------------------------
(* api/transactions.py *)

FALLBACK_CATEGORY == "Other"

FALLBACK_CONFIDENCE == 500

\* variant: the except branch keeps what the failed call left behind
Categorize_no_default(category, outcome) ==
    IF Truthy(category)
    THEN [predicted_category |-> None, confidence_score |-> None]
    ELSE [predicted_category |-> Some(outcome.label),
          confidence_score |-> Some(outcome.confidence)]

\* the (predicted_category, confidence_score) a create handler ends with
Categorize(category, outcome) ==
    IF Truthy(category)
    THEN [predicted_category |-> None, confidence_score |-> None]
    ELSE IF outcome.raised # "no"
         THEN [predicted_category |-> Some(FALLBACK_CATEGORY),
               confidence_score |-> Some(FALLBACK_CONFIDENCE)]
         ELSE [predicted_category |-> Some(outcome.label),
               confidence_score |-> Some(outcome.confidence)]

\* Transaction(...): the row built from a TransactionCreate
NewRow(id, tx, description, outcome) ==
    LET p == Categorize(tx.category, outcome)
    IN  [id |-> id,
         user_id |-> tx.user_id,
         amount |-> tx.amount,
         description |-> description,
         category |-> PyOr(tx.category, p.predicted_category),
         predicted_category |-> p.predicted_category,
         date |-> tx.date,
         is_income |-> tx.is_income,
         confidence_score |-> p.confidence_score,
         is_anomaly |-> FALSE]

\* the loop of create_bulk_transactions over the submitted list: every
\* the rows added, the categorizer model afterwards and the outcomes of the
\* calls made, for every way the calls can go
RECURSIVE BulkResults(_, _, _)
BulkResults(txs, m, nextId) ==
    IF txs = <<>>
    THEN {[rows |-> <<>>, model |-> m, calls |-> <<>>]}
    ELSE LET tx == Head(txs)
             called == ~Truthy(tx.category)
             outs == IF called THEN PossibleOutcomes(m) ELSE {NoCall}
         IN  UNION {
               {[rows |-> <<NewRow(nextId, tx, tx.description, o)>> \o r.rows,
                 model |-> r.model,
                 calls |-> (IF called THEN <<CallRecord(m, tx.description, o)>> ELSE <<>>)
                           \o r.calls] :
                   r \in BulkResults(Tail(txs),
                                     IF called THEN predict_category_model(m, o) ELSE m,
                                     nextId + 1)} : o \in outs}

----------------------------------------------------------------------------
(* Dates: hours since Monday 2024-01-01 00:00 *)

DayOf(d) == d \div 24

\* Series.dt.hour
HourOf(d) == d % 24

\* datetime.weekday() / Series.dt.dayofweek: Monday is 0
Weekday(d) == DayOf(d) % 7

MonthLengths == <<31, 29, 31, 30, 31, 30, 31, 31, 30, 31, 30, 31>>

\* <<month, day of month>> of the day number n of 2024, n in 0..365
RECURSIVE MonthDay(_, _)
MonthDay(n, m) == IF n < MonthLengths[m] THEN <<m, n + 1>> ELSE MonthDay(n - MonthLengths[m], m + 1)

\* future_date.strftime('%Y-%m-%d'): the time of day is dropped
Strftime(d) == <<2024, MonthDay(DayOf(d), 1)[1], MonthDay(DayOf(d), 1)[2]>>

\* date + timedelta(days=i)
PlusDays(d, i) == d + 24 * i

RECURSIVE MaxOfSet(_)
MaxOfSet(S) == LET x == CHOOSE y \in S : TRUE
               IN  IF S = {x} THEN x ELSE Max2(x, MaxOfSet(S \ {x}))

RECURSIVE MinOfSet(_)
MinOfSet(S) == LET x == CHOOSE y \in S : TRUE
               IN  IF S = {x} THEN x
                   ELSE LET m == MinOfSet(S \ {x}) IN IF x <= m THEN x ELSE m

----------------------------------------------------------------------------
(* DataFrames: a frame is its column list and its rows (records)           *)

Frame(columns, rows) == [columns |-> columns, rows |-> rows]

\* the category strings of the model in the order pandas sorts them
CategoryOrder ==
    <<"", "Bills & Utilities", "Education", "Entertainment", "Food & Dining",
      "Healthcare", "Income", "Investment", "Other", "Shopping", "Transfer",
      "Transportation", "Travel">>

\* the non-null values of the category column
CategoriesOf(rows) == {rows[i].category[1] : i \in {j \in DOMAIN rows : rows[j].category # None}}

\* pd.get_dummies(df['category'], prefix='cat').columns
CategoryDummies(rows) ==
    LET present == SelectSeq(CategoryOrder, LAMBDA c : c \in CategoriesOf(rows))
    IN  [i \in DOMAIN present |-> "cat_" \o present[i]]

----------------------------------------------------------------------------
(* ml/predictor.py *)

TAIL_ROWS == 100

CATEGORY_WINDOW_DAYS == 30

TimeFeatures == <<"day_of_week", "day_of_month", "month", "is_weekend">>

RollingFeatures == <<"rolling_7_mean", "rolling_7_std", "rolling_30_mean", "rolling_30_std">>

LagFeatures == <<"amount_lag_1", "amount_lag_7">>

\* the columns prepare_training_data never uses as features
ExcludedColumns ==
    {"id", "user_id", "amount", "description", "date", "category",
     "predicted_category", "is_anomaly", "confidence_score", "created_at"}

\* SpendingPredictor.create_features: the columns of the frame it returns
PredictorFeatureFrameColumns(df) ==
    df.columns \o TimeFeatures \o RollingFeatures \o CategoryDummies(df.rows) \o LagFeatures

\* SpendingPredictor.prepare_training_data: self.feature_columns
prepare_training_data(columns) == SelectSeq(columns, LAMBDA col : col \notin ExcludedColumns)

\* The fitted RandomForestRegressor is the library's.  Its prediction is an
\* average of training targets, so it lies between the smallest and the
\* largest training amount; the model keeps the lowest regressor.
RegressorFits(df) ==
    LET amounts == {df.rows[i].amount : i \in DOMAIN df.rows}
    IN  {[prediction |-> v, n_features_in_ |-> Len(prepare_training_data(PredictorFeatureFrameColumns(df)))] :
            v \in {MinOfSet(amounts)}}

\* SpendingPredictor.train_model: the instance after fitting `fit` on df
SpendingPredictor_train_model(self, df, fit) ==
    LET feature_cols == prepare_training_data(PredictorFeatureFrameColumns(df))
    IN  [model |-> Some(fit),
         scaler |-> [fitted |-> TRUE, n_features_in_ |-> Len(feature_cols),
                    n_samples_seen_ |-> Len(df.rows)],
         feature_columns |-> feature_cols]

\* SpendingPredictor._create_future_features: the vector built for a future
\* date, each slot named by the quantity the code puts there
create_future_features(self, df_features, future_date) ==
    LET cat_cols == SelectSeq(df_features.columns,
                              LAMBDA col : Len(col) >= 4 /\ SubSeq(col, 1, 4) = "cat_")
        features == IF Len(df_features.rows) > 0
                    THEN TimeFeatures \o RollingFeatures \o cat_cols \o LagFeatures
                    ELSE TimeFeatures \o
                         [i \in 1..Max2(0, Len(self.feature_columns) - 4) |-> "0"]
    IN  Prefix(features, Len(self.feature_columns))

\* SpendingPredictor._predict_by_category; averages are kept as thirtieths of
\* a dollar (sum / 30 is stored as sum), so no rounding takes place
predict_by_category(df, days_ahead) ==
    LET last == MaxOfSet({df.rows[i].date : i \in DOMAIN df.rows})
        recent == SelectSeq(df.rows, LAMBDA r : r.date >= PlusDays(last, -CATEGORY_WINDOW_DAYS))
        total(c) == SumSeq([i \in DOMAIN recent |->
                              IF recent[i].category = Some(c) THEN recent[i].amount ELSE 0])
    IN  [c \in CategoriesOf(recent) |->
            [predicted_total_x30 |-> total(c) * days_ahead,
             daily_average_x30 |-> total(c)]]

\* SpendingPredictor.predict_future_spending on a trained instance
SpendingPredictor_predict_future_spending(self, df, days_ahead) ==
    LET recent_df == Frame(df.columns, TailN(df.rows, TAIL_ROWS))
        df_features == Frame(PredictorFeatureFrameColumns(recent_df), recent_df.rows)
        last_date == MaxOfSet({df.rows[i].date : i \in DOMAIN df.rows})
        future_dates == [i \in 1..days_ahead |-> PlusDays(last_date, i)]
        predicted_amount == self.model[1].prediction
        kept == SelectSeq(future_dates,
                          LAMBDA d : Len(create_future_features(self, df_features, d))
                                       = Len(self.feature_columns))
        predictions == [i \in DOMAIN kept |->
                          [date |-> Strftime(kept[i]),
                           predicted_amount |-> Max2(0, predicted_amount)]]
    IN  [daily_predictions |-> predictions,
         total_predicted |-> SumSeq([i \in DOMAIN predictions |-> predictions[i].predicted_amount]),
         category_breakdown |-> predict_by_category(df, days_ahead),
         prediction_period |-> <<days_ahead, " days">>]

\* variant: the attribute is taken for absent whatever it holds
ModelAbsent_always(model) == TRUE

\* `not self.model` / `not self.isolation_forest` on an attribute that is
\* None or a fitted estimator
ModelAbsent(model) == model = None

MODEL_NOT_TRAINED == "Model not trained. Call train_model() first."

\* variant: an untrained instance answers with an empty forecast
predict_future_spending_empty(self, df, days_ahead) ==
    [raised |-> "no",
     value |-> [daily_predictions |-> <<>>, total_predicted |-> 0,
                category_breakdown |-> <<>>, prediction_period |-> <<days_ahead, " days">>]]

\* SpendingPredictor.predict_future_spending: what a call ends with, a
\* returned value or a raised ValueError; the instance is not written
predict_future_spending(self, df, days_ahead) ==
    IF ModelAbsent(self.model)
    THEN [raised |-> "ValueError", detail |-> MODEL_NOT_TRAINED]
    ELSE [raised |-> "no",
          value |-> SpendingPredictor_predict_future_spending(self, df, days_ahead)]

----------------------------------------------------------------------------
(* ml/anomaly_detector.py *)

ROLLING_30 == 30

NIGHT_FROM == 22

NIGHT_UNTIL == 6

SEVERITY_HIGH_BELOW == -50

SEVERITY_MEDIUM_BELOW == -30

RISK_AMOUNT_HIGH == 1000

RISK_AMOUNT_ELEVATED == 500

\* insertion of row position i into an order sorted by date; a row whose
\* date equals a date already placed goes after it (afterEqual) or before it
RECURSIVE InsertByDate(_, _, _, _)
InsertByDate(rows, order, i, afterEqual) ==
    IF order = <<>> THEN <<i>>
    ELSE IF \/ rows[i].date < rows[Head(order)].date
            \/ (~afterEqual /\ rows[i].date = rows[Head(order)].date)
         THEN <<i>> \o order
         ELSE <<Head(order)>> \o InsertByDate(rows, Tail(order), i, afterEqual)

RECURSIVE SortOrder(_, _, _)
SortOrder(rows, n, afterEqual) ==
    IF n = 0 THEN <<>>
    ELSE InsertByDate(rows, SortOrder(rows, n - 1, afterEqual), n, afterEqual)

\* df.sort_values('date'): orders of the row positions with non-decreasing
\* dates.  pandas sorts with an unstable quicksort, so rows with equal dates
\* may come out in either order; the model keeps the two extreme outcomes,
\* equal dates in input order and equal dates in reverse input order.
SortedOrders(rows) == {SortOrder(rows, Len(rows), TRUE), SortOrder(rows, Len(rows), FALSE)}

DetectorFeatureColumns ==
    <<"amount_log", "amount_zscore", "hour", "day_of_week", "is_weekend", "is_night",
      "amount_vs_7day_mean", "amount_vs_30day_mean", "category_frequency_norm">>

DetectorAddedColumns ==
    <<"amount_log", "amount_zscore", "hour", "day_of_week", "is_weekend", "is_night",
      "rolling_7_mean", "rolling_7_std", "rolling_30_mean", "amount_vs_7day_mean",
      "amount_vs_30day_mean", "category_frequency", "category_frequency_norm",
      "transactions_per_day", "amount_diff", "spending_acceleration">>

\* amount / (sum / n + 1e-6) > k for whole-dollar amounts and n <= 30: the
\* denominator is positive exactly when sum >= 0
RatioAbove(amount, sum, n, k) ==
    IF sum >= 0 THEN amount * n > k * sum ELSE amount * n <= k * sum

\* the features of the row at position k of the sorted rows
DetectorFeatures(sorted, order, k) ==
    LET r == sorted[k]
        n == Len(sorted)
        lo == Max2(1, k - ROLLING_30 + 1)
        diff(j) == IF j <= 1 THEN 0 ELSE sorted[j].amount - sorted[j - 1].amount
    IN  [source |-> order[k],
         amount |-> r.amount,
         hour |-> HourOf(r.date),
         day_of_week |-> Weekday(r.date),
         is_weekend |-> IF Weekday(r.date) \in {5, 6} THEN 1 ELSE 0,
         is_night |-> IF HourOf(r.date) >= NIGHT_FROM \/ HourOf(r.date) <= NIGHT_UNTIL THEN 1 ELSE 0,
         rolling_30_sum |-> SumSeq([j \in 1..(k - lo + 1) |-> sorted[lo + j - 1].amount]),
         rolling_30_n |-> k - lo + 1,
         category_frequency |->
             IF r.category = None THEN None
             ELSE Some(Cardinality({j \in 1..n : sorted[j].category = r.category})),
         n_rows |-> n,
         transactions_per_day |->
             Cardinality({j \in 1..n : DayOf(sorted[j].date) = DayOf(r.date)}),
         amount_diff |-> diff(k),
         spending_acceleration |-> IF k <= 1 THEN 0 ELSE diff(k) - diff(k - 1)]

\* AnomalyDetector.create_features: the frame sorted in `order`, with the
\* features the detector and its rules read
AnomalyDetector_create_features(df, order) ==
    CHOOSE frame \in
        {Frame(df.columns \o DetectorAddedColumns,
               [k \in DOMAIN order |-> DetectorFeatures(sorted, order, k)]) :
            sorted \in {[k \in DOMAIN order |-> df.rows[order[k]]]}} : TRUE

\* AnomalyDetector.prepare_features: self.feature_columns
prepare_features(columns) == SelectSeq(DetectorFeatureColumns, LAMBDA col : col \in Range(columns))

\* The fitted IsolationForest is the library's: a deterministic score for every
\* feature row, and the row is an outlier (prediction -1) when its score is
\* below the fitted offset.  The model draws the forest from a family that
\* scores a row by its is_night feature.
Forests ==
    {[night |-> -60, day |-> -40, offset_ |-> -30],
     [night |-> -15, day |-> -5, offset_ |-> -10]}

score_samples(forest, features) == IF features.is_night = 1 THEN forest.night ELSE forest.day

predict(forest, features) == IF score_samples(forest, features) < forest.offset_ THEN -1 ELSE 1

\* variant: the fitted forest and scaler are not kept on the instance
AnomalyDetector_train_model_discard(self, df, forest) == self

\* AnomalyDetector.train_model: the instance after fitting `forest`
AnomalyDetector_train_model(self, df, forest) ==
    [isolation_forest |-> Some(forest),
     scaler |-> [fitted |-> TRUE,
                 n_features_in_ |-> Len(prepare_features(df.columns \o DetectorAddedColumns)),
                 n_samples_seen_ |-> Len(df.rows)],
     feature_columns |-> prepare_features(df.columns \o DetectorAddedColumns)]

\* AnomalyDetector.detect_anomalies: the instance afterwards; prepare_features,
\* called on the frame being scored, assigns self.feature_columns again
AnomalyDetector_after_detect(self, transactions_df) ==
    [self EXCEPT !.feature_columns = prepare_features(transactions_df.columns \o DetectorAddedColumns)]

\* "night" in str(reasons).lower()
RECURSIVE ContainsSubstr(_, _)
ContainsSubstr(text, word) ==
    IF Len(text) < Len(word) THEN FALSE
    ELSE IF SubSeq(text, 1, Len(word)) = word THEN TRUE
    ELSE ContainsSubstr(Tail(text), word)

MentionsNight(reasons) == \E i \in DOMAIN reasons : ContainsSubstr(reasons[i], "night")

Abs(x) == IF x < 0 THEN -x ELSE x

RECURSIVE InsertInt(_, _)
InsertInt(sorted, x) ==
    IF sorted = <<>> THEN <<x>>
    ELSE IF x < Head(sorted) THEN <<x>> \o sorted
    ELSE <<Head(sorted)>> \o InsertInt(Tail(sorted), x)

RECURSIVE SortInts(_)
SortInts(values) ==
    IF values = <<>> THEN <<>> ELSE InsertInt(SortInts(Tail(values)), Head(values))

\* x > Series.quantile(0.95), the quantile interpolated linearly between the
\* two order statistics around position 0.95 * (n - 1)
AboveQuantile95(x, values) ==
    LET v == SortInts(values)
        lo == (19 * (Len(v) - 1)) \div 20
        rem == 19 * (Len(v) - 1) - 20 * lo
        hi == IF rem = 0 THEN lo ELSE lo + 1
    IN  20 * x > 20 * v[lo + 1] + rem * (v[hi + 1] - v[lo + 1])

\* AnomalyDetector._analyze_anomaly_reasons(transaction_features, full_df)
analyze_anomaly_reasons(f, full_df) ==
    LET r1 == IF RatioAbove(f.amount, f.rolling_30_sum, f.rolling_30_n, 3)
              THEN <<"Amount significantly higher than usual spending">> ELSE <<>>
        r2 == IF f.is_night = 1
              THEN <<"Transaction occurred during unusual hours (night)">> ELSE <<>>
        r3 == IF f.category_frequency # None /\ f.category_frequency[1] * 20 < f.n_rows
              THEN <<"Spending in rarely used category">> ELSE <<>>
        r4 == IF /\ "transactions_per_day" \in Range(full_df.columns)
                 /\ AboveQuantile95(f.transactions_per_day,
                        [i \in DOMAIN full_df.rows |-> full_df.rows[i].transactions_per_day])
              THEN <<"Unusually high number of transactions in one day">> ELSE <<>>
        r5 == IF /\ "spending_acceleration" \in Range(full_df.columns)
                 /\ AboveQuantile95(Abs(f.spending_acceleration),
                        [i \in DOMAIN full_df.rows |-> full_df.rows[i].spending_acceleration])
              THEN <<"Sudden change in spending pattern">> ELSE <<>>
        reasons == r1 \o r2 \o r3 \o r4 \o r5
    IN  IF reasons # <<>> THEN reasons ELSE <<"General spending pattern deviation">>

\* variant: the score limits are inclusive
get_severity_inclusive(anomaly_score) ==
    IF anomaly_score <= SEVERITY_HIGH_BELOW THEN "High"
    ELSE IF anomaly_score <= SEVERITY_MEDIUM_BELOW THEN "Medium"
    ELSE "Low"

get_severity(anomaly_score) ==
    IF anomaly_score < SEVERITY_HIGH_BELOW THEN "High"
    ELSE IF anomaly_score < SEVERITY_MEDIUM_BELOW THEN "Medium"
    ELSE "Low"

\* variant: a night reason is not counted a second time
assess_risk_level_night_once(transaction, reasons) ==
    LET risk_factors ==
            (IF transaction.amount > RISK_AMOUNT_HIGH THEN 2
             ELSE IF transaction.amount > RISK_AMOUNT_ELEVATED THEN 1 ELSE 0)
            + Len(reasons)
    IN  IF risk_factors >= 4 THEN "High Risk"
        ELSE IF risk_factors >= 2 THEN "Medium Risk"
        ELSE "Low Risk"

assess_risk_level(transaction, reasons) ==
    LET risk_factors ==
            (IF transaction.amount > RISK_AMOUNT_HIGH THEN 2
             ELSE IF transaction.amount > RISK_AMOUNT_ELEVATED THEN 1 ELSE 0)
            + Len(reasons)
            + (IF MentionsNight(reasons) THEN 1 ELSE 0)
    IN  IF risk_factors >= 4 THEN "High Risk"
        ELSE IF risk_factors >= 2 THEN "Medium Risk"
        ELSE "Low Risk"

\* sorted(anomalies, key=lambda x: x['anomaly_score']): stable insertion
RECURSIVE InsertByScore(_, _)
InsertByScore(sorted, e) ==
    IF sorted = <<>> THEN <<e>>
    ELSE IF e.anomaly_score < Head(sorted).anomaly_score THEN <<e>> \o sorted
    ELSE <<Head(sorted)>> \o InsertByScore(Tail(sorted), e)

\* variant: the list in the order the loop built it
SortByScore_unsorted(entries) == entries

RECURSIVE SortByScore(_)
SortByScore(entries) ==
    IF entries = <<>> THEN <<>>
    ELSE InsertByScore(SortByScore(SubSeq(entries, 1, Len(entries) - 1)), entries[Len(entries)])

\* the row the loop of detect_anomalies reads for the flagged position idx
FlaggedTransaction(transactions_df, idx) == transactions_df.rows[idx]

\* one dict of the list detect_anomalies builds, for the flagged position idx
AnomalyEntry(forest, transactions_df, df_features, idx) ==
    LET transaction == FlaggedTransaction(transactions_df, idx)
        reasons == analyze_anomaly_reasons(df_features.rows[idx], transactions_df)
    IN  [transaction_id |-> IF "id" \in Range(transactions_df.columns)
                            THEN transaction.id ELSE idx - 1,
         amount |-> transaction.amount,
         description |-> transaction.description,
         category |-> transaction.category,
         date |-> transaction.date,
         anomaly_score |-> score_samples(forest, df_features.rows[idx]),
         severity |-> get_severity(score_samples(forest, df_features.rows[idx])),
         reasons |-> reasons,
         risk_level |-> assess_risk_level(transaction, reasons),
         \* not a key of the returned dict: the input position of the
         \* row whose features the forest scored
         flagged_row |-> df_features.rows[idx].source]

\* AnomalyDetector.detect_anomalies on a trained instance; `order` is the
\* order create_features sorted the frame into
AnomalyDetector_detect_anomalies(self, transactions_df, order) ==
    CHOOSE anomalies \in
        {SortByScore([i \in DOMAIN flagged |->
                         AnomalyEntry(self.isolation_forest[1], transactions_df, df_features, flagged[i])]) :
            df_features \in {AnomalyDetector_create_features(transactions_df, order)},
            flagged \in {SelectSeq([k \in DOMAIN order |-> k],
                            LAMBDA idx : predict(self.isolation_forest[1],
                                                 DetectorFeatures([k \in DOMAIN order |-> transactions_df.rows[order[k]]], order, idx)) = -1)}} : TRUE

\* AnomalyDetector.detect_anomalies: what a call ends with, a returned list or
\* a raised ValueError; the instance is not written
detect_anomalies(self, transactions_df, order) ==
    IF ModelAbsent(self.isolation_forest)
    THEN [raised |-> "ValueError", detail |-> MODEL_NOT_TRAINED]
    ELSE [raised |-> "no",
          value |-> AnomalyDetector_detect_anomalies(self, transactions_df, order)]

----------------------------------------------------------------------------
(* Requests the model issues *)

ClientIPs == {"10.0.0.1", "10.0.0.2"}

ValidUser == "u1"

UserIdInputs == {ValidUser, "", "u!", "_", Repeat("u", USER_ID_MAX_LEN + 1)}

AmountInputs == {-1, 0, AMOUNT_CEILING, AMOUNT_CEILING + 1}

DescriptionInputs == {"", "\t", "\tc"}

CategoryInputs == {None, Some(""), Some("Travel")}

\* a valid request body, and the bodies that differ from it in one field
ValidCreate ==
    [user_id |-> ValidUser, amount |-> AMOUNT_CEILING, description |-> "\tc",
     category |-> None, date |-> 3, is_income |-> FALSE]

TransactionCreateInputs ==
    {[ValidCreate EXCEPT !.category = c] : c \in CategoryInputs}
    \cup {[ValidCreate EXCEPT !.user_id = u] : u \in UserIdInputs}
    \cup {[ValidCreate EXCEPT !.amount = a] : a \in AmountInputs}
    \cup {[ValidCreate EXCEPT !.description = d] : d \in DescriptionInputs}

\* An uploaded history of n rows of the valid user, newest first as
\* data/sample_transactions.py generates them (one row per day, day n-1 down
\* to day 0), every third one at 23:00 and the others at noon, every tenth
\* one an income row.
History(n) ==
    [i \in 1..n |->
        [user_id |-> ValidUser,
         amount |-> IF i % 5 = 0 THEN 1200 ELSE 700,
         description |-> "c",
         category |-> IF i % 10 = 0 THEN Some("Income")
                      ELSE IF i % 2 = 0 THEN Some("Shopping") ELSE Some("Food & Dining"),
         date |-> (n - i) * 24 + (IF i % 3 = 0 THEN 23 ELSE 12),
         is_income |-> (i % 10 = 0)]]

\* a single row as the bulk endpoint accepts it: a negative spending row
\* without category, dated after every history row
BulkRowInputs ==
    {[user_id |-> ValidUser, amount |-> -1, description |-> "c",
      category |-> None, date |-> 30 * 24 + 12, is_income |-> FALSE]}

\* the lists posted to the bulk endpoint where the categorizer is studied
BulkInputs ==
    {<<tx>> : tx \in BulkRowInputs}
    \cup {<<tx, [tx EXCEPT !.category = Some("Travel")], tx>> : tx \in BulkRowInputs}

\* the lists posted to the bulk endpoint where the models are studied
UploadInputs ==
    {History(10), History(20)}
    \cup {<<[tx EXCEPT !.category = Some("Travel")]>> : tx \in BulkRowInputs}

\* the bodies posted to the create endpoint where the models are studied
CategorizedCreateInputs ==
    {[ValidCreate EXCEPT !.category = Some("Travel")],
     [ValidCreate EXCEPT !.amount = -1]}

DaysAheadInputs == {-1, 2}

\* the {user_id} path parameter: the user with data and one without
UserPathInputs == {ValidUser, "u2"}

----------------------------------------------------------------------------
(* api/transactions.py: handlers *)

Reply(op, status, body) == [op |-> op, status |-> status, body |-> body]

\* what db.commit() can do
CommitOutcomes == {"ok", "failed"}

\* variant: a commit that fails has still written the pending changes
commit_partial(outcome, committed, pending) == pending

\* db.commit(): the table afterwards, given the committed table and the table
\* with the session's pending changes applied; a failed commit raises and the
\* session is closed without the pending changes
commit(outcome, committed, pending) == IF outcome = "ok" THEN pending ELSE committed

\* the answer to a request whose handler let an exception escape
INTERNAL_SERVER_ERROR == [detail |-> "Internal Server Error"]

\* what the route hands to the parameter `request` of verify_rate_limit: the
\* parameter carries no annotation, so the dependency declares a required
\* query parameter of that name, delivered as the str the client sent
QueryInputs == {None, Some("x")}

QueryValue(text) == [type |-> "str", value |-> text]

\* get_client_ip(request), `req` being its argument: the address, or the exception raised; a str has no
\* attribute `headers`
get_client_ip(req) ==
    IF req.type = "str"
    THEN [raised |-> "AttributeError", value |-> ""]
    ELSE [raised |-> "no",
          value |-> IF Truthy(req.forwarded) THEN req.forwarded ELSE req.host]

REQUEST_VALIDATION_ERROR == [detail |-> "query.request: Field required"]

RATE_LIMIT_EXCEEDED == [detail |-> "Rate limit exceeded. Please try again later."]

\* POST /api/transactions/ behind Depends(verify_rate_limit); `query` is the
\* query parameter `request` of the call, absent or a str
create_transaction(tx, query, t, outcome, db) ==
    LET client == get_client_ip(QueryValue(query[1]))
        client_ip == client.value
        rl == rate_limit_check(request_counts[client_ip], t, RATE_LIMIT, RATE_WINDOW)
        clean_description == sanitize_input(tx.description, DESCRIPTION_MAX_LEN)
        called == ~Truthy(tx.category)
        row == NewRow(Len(store) + 1, tx, clean_description, outcome)
        rejected == /\ UNCHANGED <<store, categorizer>>
                    /\ categorizer_calls' = <<>>
    IN  /\ request' = [op |-> "create_transaction", query |-> query, body |-> tx]
        /\ UNCHANGED <<predictor, anomaly_detector, bulk_count>>
        /\ IF query = None
           THEN /\ response' = Reply("create_transaction", 422, REQUEST_VALIDATION_ERROR)
                /\ rejected
                /\ UNCHANGED <<request_counts, now>>
           ELSE IF client.raised # "no"
           THEN /\ response' = Reply("create_transaction", 500, INTERNAL_SERVER_ERROR)
                /\ rejected
                /\ UNCHANGED <<request_counts, now>>
           ELSE /\ now' = t
                /\ request_counts' = [request_counts EXCEPT ![client_ip] = rl[2]]
                /\ IF ~rl[1]
                   THEN /\ response' = Reply("create_transaction", 429, RATE_LIMIT_EXCEEDED)
                        /\ rejected
                   ELSE IF ~validate_user_id(tx.user_id)
                   THEN /\ response' = Reply("create_transaction", 400, [detail |-> "Invalid user ID format"])
                        /\ rejected
                   ELSE IF ~validate_amount(tx.amount)
                   THEN /\ response' = Reply("create_transaction", 400, [detail |-> "Invalid transaction amount"])
                        /\ rejected
                   ELSE IF clean_description = ""
                   THEN /\ response' = Reply("create_transaction", 400, [detail |-> "Transaction description is required"])
                        /\ rejected
                   ELSE /\ categorizer' = IF called THEN predict_category_model(categorizer, outcome) ELSE categorizer
                        /\ categorizer_calls' =
                               IF called THEN <<CallRecord(categorizer, clean_description, outcome)>> ELSE <<>>
                        /\ store' = commit(db, store, Append(store, row))
                        /\ response' = IF db = "ok"
                                       THEN Reply("create_transaction", 200, [transaction |-> row])
                                       ELSE Reply("create_transaction", 500, INTERNAL_SERVER_ERROR)

\* one request with a body of `inputs`, with or without the query parameter
CreateTransactionOf(inputs) ==
    \E tx \in inputs, query \in QueryInputs, db \in CommitOutcomes :
        \E outcome \in (IF Truthy(tx.category) THEN {NoCall} ELSE PossibleOutcomes(categorizer)) :
            /\ Len(store) < MaxStore
            /\ create_transaction(tx, query, now + 1, outcome, db)

CreateTransaction == CreateTransactionOf(TransactionCreateInputs)

CreateCategorizedTransaction == CreateTransactionOf(CategorizedCreateInputs)

\* POST /api/transactions/bulk
create_bulk_transactions(transactions, result, db) ==
    /\ request' = [op |-> "create_bulk_transactions", body |-> transactions]
    /\ store' = commit(db, store, store \o result.rows)
    /\ categorizer' = result.model
    /\ categorizer_calls' = result.calls
    /\ response' = IF db = "ok"
                   THEN Reply("create_bulk_transactions", 200, [count |-> Len(result.rows)])
                   ELSE Reply("create_bulk_transactions", 500, INTERNAL_SERVER_ERROR)
    /\ UNCHANGED <<predictor, anomaly_detector, request_counts, now>>

CreateBulkTransactionsOf(inputs) ==
    \E transactions \in inputs :
        /\ bulk_count < MaxBulk
        /\ Len(store) + Len(transactions) <= MaxStore
        /\ \E result \in BulkResults(transactions, categorizer, Len(store) + 1),
              db \in CommitOutcomes :
              create_bulk_transactions(transactions, result, db)
        /\ bulk_count' = bulk_count + 1

CreateBulkTransactions == CreateBulkTransactionsOf(BulkInputs)

UploadTransactions == CreateBulkTransactionsOf(UploadInputs)

----------------------------------------------------------------------------
(* api/predictions.py: handlers *)

MIN_TRAIN_TRANSACTIONS == 10

MIN_TRAIN_SPENDING == 5

MIN_PREDICT_TRANSACTIONS == 10

MIN_ANOMALY_TRANSACTIONS == 20

\* variant: only an empty history is too short
BelowMinimum_nonempty(count, minimum) == count < 1

\* len(transactions) < minimum
BelowMinimum(count, minimum) == count < minimum

\* db.query(Transaction).filter(Transaction.user_id == user_id).all()
UserRows(user_id) == SelectSeq(store, LAMBDA t : t.user_id = user_id)

\* POST /api/predictions/train/{user_id}
train_prediction_models(user_id, fit, forest) ==
    LET transactions == UserRows(user_id)
        df == Frame(<<"id", "user_id", "amount", "description", "category", "date", "is_income">>,
                    transactions)
        spending_df == Frame(df.columns, SelectSeq(df.rows, LAMBDA t : ~t.is_income))
    IN  /\ request' = [op |-> "train_prediction_models", user_id |-> user_id]
        /\ categorizer_calls' = <<>>
        /\ UNCHANGED <<store, categorizer, request_counts, now, bulk_count>>
        /\ IF BelowMinimum(Len(transactions), MIN_TRAIN_TRANSACTIONS)
           THEN /\ response' = Reply("train_prediction_models", 400,
                                     [detail |-> "Need at least 10 transactions to train models"])
                /\ UNCHANGED <<predictor, anomaly_detector>>
           ELSE IF BelowMinimum(Len(spending_df.rows), MIN_TRAIN_SPENDING)
           THEN /\ response' = Reply("train_prediction_models", 400,
                                     [detail |-> "Need at least 5 spending transactions to train models"])
                /\ UNCHANGED <<predictor, anomaly_detector>>
           ELSE /\ fit \in RegressorFits(spending_df)
                /\ predictor' = SpendingPredictor_train_model(predictor, spending_df, fit)
                /\ anomaly_detector' = AnomalyDetector_train_model(anomaly_detector, spending_df, forest)
                /\ response' = Reply("train_prediction_models", 200,
                                     [user_id |-> user_id,
                                      transaction_count |-> Len(transactions),
                                      spending_transactions |-> Len(spending_df.rows)])

\* the regressors a training request of the user can end with
TrainFits(user_id) ==
    LET spending == SelectSeq(UserRows(user_id), LAMBDA t : ~t.is_income)
    IN  IF spending = <<>> THEN {[prediction |-> 0, n_features_in_ |-> 0]}
        ELSE RegressorFits(Frame(<<"id", "user_id", "amount", "description", "category", "date", "is_income">>, spending))

TrainPredictionModels ==
    \E user_id \in UserPathInputs, forest \in Forests :
        \E fit \in TrainFits(user_id) :
            train_prediction_models(user_id, fit, forest)

\* GET /api/predictions/spending/{user_id}
api_predict_future_spending(user_id, days_ahead, fit) ==
    LET transactions == SelectSeq(UserRows(user_id), LAMBDA t : ~t.is_income)
        df == Frame(<<"amount", "description", "category", "date">>, transactions)
        trained == IF ModelAbsent(predictor.model)
                   THEN SpendingPredictor_train_model(predictor, df, fit)
                   ELSE predictor
    IN  /\ request' = [op |-> "predict_future_spending", user_id |-> user_id, days_ahead |-> days_ahead]
        /\ categorizer_calls' = <<>>
        /\ UNCHANGED <<store, categorizer, anomaly_detector, request_counts, now, bulk_count>>
        /\ IF BelowMinimum(Len(transactions), MIN_PREDICT_TRANSACTIONS)
           THEN /\ response' = Reply("predict_future_spending", 400,
                                     [detail |-> "Need at least 10 transactions for predictions"])
                /\ UNCHANGED predictor
           ELSE \E predictions \in {predict_future_spending(trained, df, days_ahead)} :
                /\ predictor' = trained
                /\ response' = IF predictions.raised = "no"
                               THEN Reply("predict_future_spending", 200,
                                          [user_id |-> user_id,
                                           predictions |-> predictions.value,
                                           based_on_transactions |-> Len(transactions)])
                               ELSE Reply("predict_future_spending", 500,
                                          [detail |-> <<"Prediction failed: ", predictions.detail>>])

\* the regressors a forecast request of the user can fit
PredictFits(user_id) ==
    LET spending == SelectSeq(UserRows(user_id), LAMBDA t : ~t.is_income)
    IN  IF spending = <<>> THEN {[prediction |-> 0, n_features_in_ |-> 0]}
        ELSE RegressorFits(Frame(<<"amount", "description", "category", "date">>, spending))

PredictFutureSpending ==
    \E user_id \in UserPathInputs, days_ahead \in DaysAheadInputs :
        \E fit \in (IF ModelAbsent(predictor.model) THEN PredictFits(user_id) ELSE {predictor.model[1]}) :
            api_predict_future_spending(user_id, days_ahead, fit)

\* variant: the flags are never written
UpdateAnomalyFlags_none(rows, anomalies) == rows

\* variant: is_anomaly rewritten on every row from the current run alone
UpdateAnomalyFlags_reset(rows, anomalies) ==
    [i \in DOMAIN rows |->
        [rows[i] EXCEPT !.is_anomaly =
            \E a \in DOMAIN anomalies : anomalies[a].transaction_id = rows[i].id]]

\* the UPDATE ... SET is_anomaly = TRUE WHERE id = transaction_id of every
\* returned anomaly
UpdateAnomalyFlags(rows, anomalies) ==
    [i \in DOMAIN rows |->
        IF \E a \in DOMAIN anomalies : anomalies[a].transaction_id = rows[i].id
        THEN [rows[i] EXCEPT !.is_anomaly = TRUE]
        ELSE rows[i]]

\* GET /api/predictions/anomalies/{user_id}; transactions is the result of
\* the handler's query
detect_spending_anomalies(user_id, transactions, forest, order, db) ==
    LET df == Frame(<<"id", "amount", "description", "category", "date", "is_income">>, transactions)
        trained == IF ModelAbsent(anomaly_detector.isolation_forest)
                   THEN AnomalyDetector_train_model(anomaly_detector, df, forest)
                   ELSE anomaly_detector
    IN  /\ request' = [op |-> "detect_spending_anomalies", user_id |-> user_id]
        /\ categorizer_calls' = <<>>
        /\ UNCHANGED <<categorizer, predictor, request_counts, now, bulk_count>>
        /\ IF BelowMinimum(Len(transactions), MIN_ANOMALY_TRANSACTIONS)
           THEN /\ response' = Reply("detect_spending_anomalies", 400,
                                     [detail |-> "Need at least 20 transactions for anomaly detection"])
                /\ UNCHANGED <<store, anomaly_detector>>
           ELSE \E anomalies \in {detect_anomalies(trained, df, order)} :
                /\ anomaly_detector' = AnomalyDetector_after_detect(trained, df)
                /\ IF anomalies.raised # "no"
                   THEN /\ UNCHANGED store
                        /\ response' = Reply("detect_spending_anomalies", 500,
                                             [detail |-> <<"Anomaly detection failed: ", anomalies.detail>>])
                   ELSE /\ store' = commit(db, store, UpdateAnomalyFlags(store, anomalies.value))
                        /\ response' = IF db = "ok"
                                       THEN Reply("detect_spending_anomalies", 200,
                                                  [user_id |-> user_id,
                                                   anomalies |-> anomalies.value,
                                                   anomaly_count |-> Len(anomalies.value),
                                                   total_transactions |-> Len(transactions)])
                                       ELSE Reply("detect_spending_anomalies", 500,
                                                  [detail |-> <<"Anomaly detection failed: ", "commit">>])

DetectSpendingAnomalies ==
    \E user_id \in UserPathInputs :
        \E transactions \in {UserRows(user_id)} :
            \E forest \in (IF ModelAbsent(anomaly_detector.isolation_forest) THEN Forests
                           ELSE {anomaly_detector.isolation_forest[1]}) :
                \E order \in SortedOrders(transactions), db \in CommitOutcomes :
                    detect_spending_anomalies(user_id, transactions, forest, order, db)

----------------------------------------------------------------------------
(* Specification *)

Init ==
    /\ store = <<>>
    /\ categorizer = "None"
    /\ predictor = [model |-> None, scaler |-> [fitted |-> FALSE, n_features_in_ |-> 0, n_samples_seen_ |-> 0],
                    feature_columns |-> <<>>]
    /\ anomaly_detector = [isolation_forest |-> None,
                           scaler |-> [fitted |-> FALSE, n_features_in_ |-> 0, n_samples_seen_ |-> 0],
                           feature_columns |-> <<>>]
    /\ request_counts = [ip \in ClientIPs |-> <<>>]
    /\ now = 0
    /\ request = [op |-> "none"]
    /\ categorizer_calls = <<>>
    /\ response = Reply("none", 0, [detail |-> ""])
    /\ bulk_count = 0

\* the API with the uploads that bring the models into play
Next ==
    \/ CreateCategorizedTransaction
    \/ UploadTransactions
    \/ TrainPredictionModels
    \/ PredictFutureSpending
    \/ DetectSpendingAnomalies

Spec == Init /\ [][Next]_vars

\* the two create endpoints with the bodies that bring the categorizer into play
NextCreate ==
    \/ CreateTransaction
    \/ CreateBulkTransactions

SpecCreate == Init /\ [][NextCreate]_vars

\* validate_amount on its own: the amounts around its two limits
AmountProbes ==
    (-AmountMargin .. AmountMargin)
    \cup ((AMOUNT_CEILING - AmountMargin) .. (AMOUNT_CEILING + AmountMargin))

InitAmount ==
    /\ store = <<>>
    /\ categorizer = "None"
    /\ predictor = [model |-> None, scaler |-> [fitted |-> FALSE, n_features_in_ |-> 0, n_samples_seen_ |-> 0],
                    feature_columns |-> <<>>]
    /\ anomaly_detector = [isolation_forest |-> None,
                           scaler |-> [fitted |-> FALSE, n_features_in_ |-> 0, n_samples_seen_ |-> 0],
                           feature_columns |-> <<>>]
    /\ request_counts = [ip \in ClientIPs |-> <<>>]
    /\ now = 0
    /\ \E amount \in AmountProbes : request = [op |-> "validate_amount", amount |-> amount]
    /\ categorizer_calls = <<>>
    /\ response = Reply("none", 0, [detail |-> ""])
    /\ bulk_count = 0

ValidateAmount ==
    /\ response.op = "none"
    /\ response' = [op |-> "validate_amount", result |-> validate_amount(request.amount)]
    /\ UNCHANGED <<store, categorizer, predictor, anomaly_detector, request_counts, now,
                   request, categorizer_calls, bulk_count>>

NextAmount == ValidateAmount

SpecAmount == InitAmount /\ [][NextAmount]_vars

\* the model classes called directly, outside the handlers
HistoryRows(n) == (CHOOSE r \in BulkResults(History(n), "None", 1) : TRUE).rows

Reversed(rows) == [i \in DOMAIN rows |-> rows[Len(rows) + 1 - i]]

\* the frames handed to the classes: histories newest first and oldest first,
\* with the columns the three handlers build
ModelFrames ==
    {Frame(columns, rows) :
        columns \in {<<"id", "user_id", "amount", "description", "category", "date", "is_income">>,
                     <<"amount", "description", "category", "date">>,
                     <<"id", "amount", "description", "category", "date", "is_income">>},
        rows \in {HistoryRows(10), HistoryRows(20), Reversed(HistoryRows(20))}}

\* what a call record keeps of the frame it was given
FrameArgs(df) == <<df.columns, Len(df.rows), df.rows[1].id>>

\* a direct call leaves everything but the two instances and its own record alone
DirectCall(op, args, result) ==
    /\ request' = [op |-> op, args |-> args]
    /\ response' = [op |-> op, result |-> result]
    /\ UNCHANGED <<store, categorizer, request_counts, now, categorizer_calls, bulk_count>>

CallPredictorTrain ==
    \E df \in ModelFrames :
        \E fit \in RegressorFits(df) :
            /\ predictor' = SpendingPredictor_train_model(predictor, df, fit)
            /\ UNCHANGED anomaly_detector
            /\ DirectCall("SpendingPredictor.train_model", <<FrameArgs(df)>>, [raised |-> "no"])

CallPredictorPredict ==
    \E df \in ModelFrames, days_ahead \in DaysAheadInputs :
        /\ UNCHANGED <<predictor, anomaly_detector>>
        /\ DirectCall("SpendingPredictor.predict_future_spending", <<FrameArgs(df), days_ahead>>,
                      predict_future_spending(predictor, df, days_ahead))

CallDetectorTrain ==
    \E df \in ModelFrames, forest \in Forests :
        /\ anomaly_detector' = AnomalyDetector_train_model(anomaly_detector, df, forest)
        /\ UNCHANGED predictor
        /\ DirectCall("AnomalyDetector.train_model", <<FrameArgs(df)>>, [raised |-> "no"])

CallDetectorDetect ==
    \E df \in ModelFrames :
        \E order \in SortedOrders(df.rows) :
            /\ UNCHANGED predictor
            /\ anomaly_detector' = IF ModelAbsent(anomaly_detector.isolation_forest)
                                   THEN anomaly_detector
                                   ELSE AnomalyDetector_after_detect(anomaly_detector, df)
            /\ DirectCall("AnomalyDetector.detect_anomalies", <<FrameArgs(df)>>,
                          detect_anomalies(anomaly_detector, df, order))

NextModels ==
    \/ CallPredictorTrain
    \/ CallPredictorPredict
    \/ CallDetectorTrain
    \/ CallDetectorDetect

SpecModels == Init /\ [][NextModels]_vars

----------------------------------------------------------------------------
(* Two requests handled at the same time on one singleton.  The handlers
   are `async def` without an await, so one event loop runs them one after
   the other; the steps below are what two threads sharing the module's
   singletons would do.  The requests' positions are kept in `request`,
   their answers in `response`. *)

Threads == {1, 2}

Singletons == {"predictor", "anomaly_detector"}

\* RandomForestRegressor(...) / IsolationForest(...) before fit: estimators_
\* does not exist yet, so len() of it, and with it `not model`, raises
UNFITTED == [estimators_ |-> "unset"]

\* the singleton a request works on, and its model attribute
SingletonOf(target) == IF target = "predictor" THEN predictor ELSE anomaly_detector

ModelOf(target) ==
    IF target = "predictor" THEN predictor.model ELSE anomaly_detector.isolation_forest

\* the handler's query and the frame it builds from the result
QueryOf(target, user_id) ==
    IF target = "predictor"
    THEN SelectSeq(UserRows(user_id), LAMBDA t : ~t.is_income)
    ELSE UserRows(user_id)

HandlerFrame(target, transactions) ==
    IF target = "predictor"
    THEN Frame(<<"amount", "description", "category", "date">>, transactions)
    ELSE Frame(<<"id", "amount", "description", "category", "date", "is_income">>, transactions)

MinimumOf(target) ==
    IF target = "predictor" THEN MIN_PREDICT_TRANSACTIONS ELSE MIN_ANOMALY_TRANSACTIONS

\* train_model run on the frame of the request: the instance it would leave
\* behind if it ran alone, from which each step takes the attribute it writes
TrainedAlone(target, df, fit, forest) ==
    IF target = "predictor"
    THEN SpendingPredictor_train_model(predictor, df, fit)
    ELSE AnomalyDetector_train_model(anomaly_detector, df, forest)

\* one attribute of the singleton written, `writer` noting whose training
\* run wrote it
WriteAttribute(target, attribute, value, t) ==
    /\ IF target = "predictor"
       THEN /\ predictor' = [predictor EXCEPT ![attribute] = value]
            /\ UNCHANGED anomaly_detector
       ELSE /\ anomaly_detector' = [anomaly_detector EXCEPT ![attribute] = value]
            /\ UNCHANGED predictor
    /\ UNCHANGED <<store, categorizer, request_counts, now, categorizer_calls, bulk_count>>

ModelAttribute(target) == IF target = "predictor" THEN "model" ELSE "isolation_forest"

At(t, pc) == request.op = "concurrent" /\ request.threads[t].pc = pc

Goto(t, pc) == [request EXCEPT !.threads[t].pc = pc]

Untouched == UNCHANGED <<store, categorizer, predictor, anomaly_detector, request_counts, now,
                         categorizer_calls, bulk_count>>

Failed(t, detail) == [response EXCEPT ![t] = [status |-> 500, detail |-> detail]]

\* db.query(...).all() and the minimum check
RaceQuery(t) ==
    /\ At(t, "query")
    /\ \E transactions \in {QueryOf(request.target, ValidUser)} :
          IF BelowMinimum(Len(transactions), MinimumOf(request.target))
          THEN /\ request' = Goto(t, "done")
               /\ response' = [response EXCEPT ![t] = [status |-> 400]]
          ELSE /\ request' = [request EXCEPT !.threads[t].pc = "check",
                                             !.threads[t].transactions = transactions]
               /\ UNCHANGED response
    /\ Untouched

\* `if not predictor.model:` / `if not anomaly_detector.isolation_forest:`
RaceCheck(t) ==
    /\ At(t, "check")
    /\ \E model \in {ModelOf(request.target)} :
          IF model = Some(UNFITTED)
          THEN /\ request' = Goto(t, "done")
               /\ response' = Failed(t, "AttributeError")
          ELSE /\ request' = [request EXCEPT
                                 !.threads[t].observed = Some(model),
                                 !.threads[t].pc = IF ModelAbsent(model) THEN "prepare" ELSE "use"]
               /\ UNCHANGED response
    /\ Untouched

\* train_model: create_features and prepare_training_data / prepare_features,
\* which assigns self.feature_columns
RacePrepare(t) ==
    /\ At(t, "prepare")
    /\ \E df \in {HandlerFrame(request.target, request.threads[t].transactions)} :
          \E fit \in RegressorFits(df), forest \in Forests :
              WriteAttribute(request.target, "feature_columns",
                             TrainedAlone(request.target, df, fit, forest).feature_columns, t)
    /\ request' = [request EXCEPT !.threads[t].pc = "scale",
                                  !.threads[t].trained = TRUE,
                                  !.writer.feature_columns = t]
    /\ UNCHANGED response

\* train_model: self.scaler.fit_transform(X)
RaceScale(t) ==
    /\ At(t, "scale")
    /\ \E df \in {HandlerFrame(request.target, request.threads[t].transactions)} :
          \E fit \in RegressorFits(df), forest \in Forests :
              WriteAttribute(request.target, "scaler",
                             TrainedAlone(request.target, df, fit, forest).scaler, t)
    /\ request' = [request EXCEPT !.threads[t].pc = "assign", !.writer.scaler = t]
    /\ UNCHANGED response

\* train_model: self.model = RandomForestRegressor(...) /
\* self.isolation_forest = IsolationForest(...)
RaceAssign(t) ==
    /\ At(t, "assign")
    /\ WriteAttribute(request.target, ModelAttribute(request.target), Some(UNFITTED), t)
    /\ request' = [request EXCEPT !.threads[t].pc = "fit", !.writer.model = 0]
    /\ UNCHANGED response

\* train_model: self.model.fit(X_scaled, y) / self.isolation_forest.fit_predict(X_scaled),
\* on whichever estimator the attribute holds by now
RaceFit(t) ==
    /\ At(t, "fit")
    /\ \E df \in {HandlerFrame(request.target, request.threads[t].transactions)} :
          \E fit \in RegressorFits(df), forest \in Forests :
              WriteAttribute(request.target, ModelAttribute(request.target),
                             IF request.target = "predictor" THEN Some(fit) ELSE Some(forest), t)
    /\ request' = [request EXCEPT !.threads[t].pc = "metrics", !.writer.model = t]
    /\ UNCHANGED response

\* train_model: the metrics, computed with self.model.predict and score /
\* self.isolation_forest.score_samples on the attribute read again
RaceMetrics(t) ==
    /\ At(t, "metrics")
    /\ IF ModelOf(request.target) = Some(UNFITTED)
       THEN /\ request' = Goto(t, "done")
            /\ response' = Failed(t, "NotFittedError")
       ELSE /\ request' = Goto(t, "use")
            /\ UNCHANGED response
    /\ Untouched

\* predictor.predict_future_spending(df, days_ahead) and the answer
RaceUsePredictor(t) ==
    /\ At(t, "use")
    /\ request.target = "predictor"
    /\ request' = Goto(t, "done")
    /\ \E days_ahead \in DaysAheadInputs :
          response' =
             IF predictor.model = Some(UNFITTED)
             THEN Failed(t, "AttributeError")
             ELSE LET predictions ==
                          predict_future_spending(
                              predictor, HandlerFrame("predictor", request.threads[t].transactions),
                              days_ahead)
                  IN  [response EXCEPT ![t] =
                          [status |-> IF predictions.raised = "no" THEN 200 ELSE 500,
                           used |-> request.writer,
                           predictions |-> predictions]]
    /\ Untouched

\* anomaly_detector.detect_anomalies(df), the flag updates, the commit and
\* the answer
RaceUseDetector(t) ==
    /\ At(t, "use")
    /\ request.target = "anomaly_detector"
    /\ request' = Goto(t, "done")
    /\ UNCHANGED <<categorizer, predictor, anomaly_detector, request_counts, now,
                   categorizer_calls, bulk_count>>
    /\ IF anomaly_detector.isolation_forest = Some(UNFITTED)
       THEN /\ response' = Failed(t, "AttributeError")
            /\ UNCHANGED store
       ELSE \E order \in SortedOrders(request.threads[t].transactions), db \in CommitOutcomes :
              \E anomalies \in {detect_anomalies(
                                   anomaly_detector,
                                   HandlerFrame("anomaly_detector", request.threads[t].transactions),
                                   order)} :
                 IF anomalies.raised # "no"
                 THEN /\ response' = Failed(t, anomalies.raised)
                      /\ UNCHANGED store
                 ELSE /\ store' = commit(db, store, UpdateAnomalyFlags(store, anomalies.value))
                      /\ response' = [response EXCEPT ![t] =
                                         [status |-> IF db = "ok" THEN 200 ELSE 500,
                                          used |-> request.writer,
                                          anomalies |-> anomalies.value]]

\* both requests arrive for a user with twenty transactions, before any
\* model has been trained
InitRace ==
    /\ store \in {HistoryRows(20), Reversed(HistoryRows(20))}
    /\ categorizer = "None"
    /\ predictor = [model |-> None, scaler |-> [fitted |-> FALSE, n_features_in_ |-> 0, n_samples_seen_ |-> 0],
                    feature_columns |-> <<>>]
    /\ anomaly_detector = [isolation_forest |-> None,
                           scaler |-> [fitted |-> FALSE, n_features_in_ |-> 0, n_samples_seen_ |-> 0],
                           feature_columns |-> <<>>]
    /\ request_counts = [ip \in ClientIPs |-> <<>>]
    /\ now = 0
    /\ \E target \in Singletons :
          request = [op |-> "concurrent",
                     target |-> target,
                     threads |-> [t \in Threads |->
                                     [pc |-> "query", observed |-> <<>>, trained |-> FALSE,
                                      transactions |-> <<>>]],
                     writer |-> [feature_columns |-> 0, scaler |-> 0, model |-> 0]]
    /\ categorizer_calls = <<>>
    /\ response = [t \in Threads |-> [status |-> 0]]
    /\ bulk_count = 0

NextRace ==
    \E t \in Threads :
        \/ RaceQuery(t)
        \/ RaceCheck(t)
        \/ RacePrepare(t)
        \/ RaceScale(t)
        \/ RaceAssign(t)
        \/ RaceFit(t)
        \/ RaceMetrics(t)
        \/ RaceUsePredictor(t)
        \/ RaceUseDetector(t)

SpecRace == InitRace /\ [][NextRace]_vars

----------------------------------------------------------------------------
(* api/dashboard.py and the /categories/stats handler of api/transactions.py.
   Here amounts are thousandths of a dollar, so that amounts below one cent
   and the handler's rounding to cents can be told apart; a ratio the code
   computes in floating point is kept as the pair <<numerator, denominator>>. *)

MaxRows == 3

\* np.round(x, 2) of a / b dollars with a in thousandths: the cents, halves
\* going to the even cent
RoundHalfEven(a, b) ==
    LET q == a \div b
        r == a % b
    IN  IF 2 * r < b THEN q
        ELSE IF 2 * r > b THEN q + 1
        ELSE IF q % 2 = 0 THEN q ELSE q + 1

\* <<a * 10^k \div b, the remainder>>, digit by digit so that no product
\* leaves the 32-bit range
RECURSIVE LongDiv(_, _, _)
LongDiv(a, b, k) ==
    IF k = 0 THEN <<a \div b, a % b>>
    ELSE LET p == LongDiv(a, b, k - 1)
         IN  <<p[1] * 10 + (p[2] * 10) \div b, (p[2] * 10) % b>>

\* f"{a / b * 100:.1f}": the percentage in tenths, rounded to the nearest
PercentTenths(a, b) ==
    LET p == LongDiv(a, b, 3)
    IN  IF 2 * p[2] >= b THEN p[1] + 1 ELSE p[1]

AmountSum(rows) == SumSeq([i \in DOMAIN rows |-> rows[i].amount])

InCategory(rows, c) == SelectSeq(rows, LAMBDA r : r.category = Some(c))

\* the index of groupby('category'): the categories present, sorted
GroupIndex(rows) == SelectSeq(CategoryOrder, LAMBDA c : c \in CategoriesOf(rows))

\* Series.sort_values(ascending=False) over the index `cats`; equal totals
\* come out in index order or in reverse index order
RECURSIVE SortDescending(_, _, _)
SortDescending(cats, totals, tiesInOrder) ==
    IF cats = <<>> THEN <<>>
    ELSE LET best == CHOOSE i \in DOMAIN cats :
                        \A j \in DOMAIN cats :
                            \/ totals[cats[i]] > totals[cats[j]]
                            \/ /\ totals[cats[i]] = totals[cats[j]]
                               /\ IF tiesInOrder THEN i <= j ELSE i >= j
         IN  <<cats[best]>> \o
             SortDescending(SelectSeq(cats, LAMBDA c : c # cats[best]), totals, tiesInOrder)

\* get_category_breakdown(expenses_df)["data"]
get_category_breakdown(expenses_df, tiesInOrder) ==
    IF Len(expenses_df) = 0 THEN <<>>
    ELSE LET index == GroupIndex(expenses_df)
             totals == [c \in Range(index) |-> AmountSum(InCategory(expenses_df, c))]
             category_totals == SortDescending(index, totals, tiesInOrder)
             total_spending == SumSeq([i \in DOMAIN category_totals |-> totals[category_totals[i]]])
         IN  [i \in DOMAIN category_totals |->
                [category |-> category_totals[i],
                 amount |-> totals[category_totals[i]],
                 percentage |-> IF total_spending > 0
                                THEN <<100 * totals[category_totals[i]], total_spending>>
                                ELSE <<0, 1>>,
                 transaction_count |-> Len(InCategory(expenses_df, category_totals[i]))]]

\* GET /api/transactions/categories/stats: the body of the answer.  total and
\* average are cents (rounded by .round(2)), total_spending is thousandths;
\* percentage divides the rounded total by the unrounded sum
get_category_stats(user_id) ==
    LET transactions == SelectSeq(UserRows(user_id), LAMBDA t : ~t.is_income)
        index == GroupIndex(transactions)
    IN  IF transactions = <<>>
        THEN [categories |-> <<>>, total_spending |-> 0]
        ELSE [categories |->
                 [i \in DOMAIN index |->
                     LET rows == InCategory(transactions, index[i])
                         total_sum == RoundHalfEven(AmountSum(rows), 10)
                     IN  [category |-> index[i],
                          total |-> total_sum,
                          average |-> RoundHalfEven(AmountSum(rows), 10 * Len(rows)),
                          count |-> Len(rows),
                          percentage |-> <<100 * 10 * total_sum, AmountSum(transactions)>>]],
              total_spending |-> AmountSum(transactions),
              transaction_count |-> Len(transactions)]

\* category_sums.idxmax(): the first category of the index with the largest sum
TopCategory(expenses_df) ==
    LET index == GroupIndex(expenses_df)
        sum(c) == AmountSum(InCategory(expenses_df, c))
        first == CHOOSE i \in DOMAIN index :
                    /\ \A j \in DOMAIN index : sum(index[i]) >= sum(index[j])
                    /\ \A j \in 1..(i - 1) : sum(index[j]) < sum(index[i])
    IN  index[first]

\* generate_insights, insight 2
SavingsInsight(total_income, total_expenses) ==
    IF total_income > 0
    THEN IF (total_income - total_expenses) * 10 < total_income
         THEN <<[type |-> "low_savings",
                 savings_rate_tenths |-> PercentTenths(total_income - total_expenses, total_income)]>>
         ELSE IF (total_income - total_expenses) * 10 > 3 * total_income
         THEN <<[type |-> "high_savings",
                 savings_rate_tenths |-> PercentTenths(total_income - total_expenses, total_income)]>>
         ELSE <<>>
    ELSE <<>>

\* generate_insights, insight 3
TrendInsight(df, expenses_df) ==
    LET recent_date == MaxOfSet({df[i].date : i \in DOMAIN df})
        last_30_days == SelectSeq(expenses_df, LAMBDA r : r.date >= PlusDays(recent_date, -30))
        previous_30_days == SelectSeq(expenses_df,
                                      LAMBDA r : /\ r.date >= PlusDays(recent_date, -60)
                                                 /\ r.date < PlusDays(recent_date, -30))
        recent_spending == AmountSum(last_30_days)
        previous_spending == AmountSum(previous_30_days)
        change == recent_spending - previous_spending
    IN  IF /\ Len(last_30_days) > 0
           /\ Len(previous_30_days) > 0
           /\ previous_spending > 0
           /\ (IF change >= 0 THEN change ELSE -change) * 10 > previous_spending
        THEN <<[type |-> "spending_trend",
                trend |-> IF change > 0 THEN "increased" ELSE "decreased",
                change_percent |-> <<100 * change, previous_spending>>,
                actionable |-> change > 0]>>
        ELSE <<>>

\* generate_insights, insight 4
AnomalyInsight(df) ==
    LET anomalies == SelectSeq(df, LAMBDA r : r.is_anomaly)
    IN  IF Len(anomalies) > 0
        THEN <<[type |-> "anomalies", anomaly_count |-> Len(anomalies)]>>
        ELSE <<>>

\* generate_insights(df, expenses_df, income_df): the list returned, or the
\* exception of a division by a zero total
generate_insights(df, expenses_df, income_df) ==
    IF Len(expenses_df) = 0 THEN [raised |-> "no", value |-> <<>>]
    ELSE
    LET top_category == TopCategory(expenses_df)
        top_amount == AmountSum(InCategory(expenses_df, top_category))
        total_expenses == AmountSum(expenses_df)
        total_income == IF Len(income_df) > 0 THEN AmountSum(income_df) ELSE 0
        weekend == SelectSeq(expenses_df, LAMBDA r : Weekday(r.date) >= 5)
        weekday == SelectSeq(expenses_df, LAMBDA r : Weekday(r.date) < 5)
        higher == /\ Len(weekend) > 0
                  /\ Len(weekday) > 0
                  /\ 2 * AmountSum(weekend) * Len(weekday) > 3 * AmountSum(weekday) * Len(weekend)
    IN  IF total_expenses = 0 THEN [raised |-> "ZeroDivisionError"]
        ELSE IF higher /\ AmountSum(weekday) = 0 THEN [raised |-> "ZeroDivisionError"]
        ELSE [raised |-> "no",
              value |->
                 <<[type |-> "top_category",
                    category |-> top_category,
                    amount |-> top_amount,
                    share_tenths |-> PercentTenths(top_amount, total_expenses)]>>
                 \o SavingsInsight(total_income, total_expenses)
                 \o TrendInsight(df, expenses_df)
                 \o AnomalyInsight(df)
                 \o (IF higher
                     THEN <<[type |-> "weekend_spending",
                             weekend_avg |-> <<AmountSum(weekend), Len(weekend)>>,
                             weekday_avg |-> <<AmountSum(weekday), Len(weekday)>>]>>
                     ELSE <<>>)]

\* the rows a user can have: two incomes and expenses that put the savings
\* rate on either side of its thresholds, below one cent, at zero, on a
\* weekend and in an earlier month
DashboardRowInputs ==
    LET row(amount, category, date, is_income, is_anomaly) ==
            [user_id |-> ValidUser, amount |-> amount, description |-> "c",
             category |-> Some(category), date |-> date,
             is_income |-> is_income, is_anomaly |-> is_anomaly]
    IN  {row(4500000, "Income", 45 * 24 + 12, TRUE, FALSE),
         row(10000, "Income", 44 * 24 + 12, TRUE, FALSE),
         row(3000000, "Food & Dining", 45 * 24 + 12, FALSE, FALSE),
         row(9000, "Shopping", 5 * 24 + 12, FALSE, TRUE),
         row(7000, "Food & Dining", 43 * 24 + 12, FALSE, FALSE),
         row(4, "Travel", 42 * 24 + 12, FALSE, FALSE),
         row(0, "Shopping", 41 * 24 + 12, FALSE, FALSE)}

RECURSIVE RowLists(_)
RowLists(n) ==
    IF n = 0 THEN {<<>>}
    ELSE RowLists(n - 1) \cup
         {Append(rows, r) : rows \in {l \in RowLists(n - 1) : Len(l) = n - 1},
                            r \in DashboardRowInputs}

\* the table with its ids
WithIds(rows) == [i \in DOMAIN rows |-> [id |-> i] @@ rows[i]]

InitDashboard ==
    /\ store \in {WithIds(rows) : rows \in RowLists(MaxRows)}
    /\ categorizer = "None"
    /\ predictor = [model |-> None, scaler |-> [fitted |-> FALSE, n_features_in_ |-> 0, n_samples_seen_ |-> 0],
                    feature_columns |-> <<>>]
    /\ anomaly_detector = [isolation_forest |-> None,
                           scaler |-> [fitted |-> FALSE, n_features_in_ |-> 0, n_samples_seen_ |-> 0],
                           feature_columns |-> <<>>]
    /\ request_counts = [ip \in ClientIPs |-> <<>>]
    /\ now = 0
    /\ request = [op |-> "none"]
    /\ categorizer_calls = <<>>
    /\ response = [op |-> "none"]
    /\ bulk_count = 0

\* a read leaves everything but its own record alone
Read(op, user_id, result) ==
    /\ request' = [op |-> op, user_id |-> user_id]
    /\ response' = [op |-> op, result |-> result]
    /\ UNCHANGED <<store, categorizer, predictor, anomaly_detector, request_counts, now,
                   categorizer_calls, bulk_count>>

GetCategoryStats ==
    \E user_id \in UserPathInputs :
        Read("get_category_stats", user_id, get_category_stats(user_id))

\* get_dashboard_overview's calls of the two functions, on the frames it
\* builds from a user's transactions
CallGetCategoryBreakdown ==
    \E user_id \in UserPathInputs, tiesInOrder \in BOOLEAN :
        /\ UserRows(user_id) # <<>>
        /\ Read("get_category_breakdown", user_id,
                get_category_breakdown(SelectSeq(UserRows(user_id), LAMBDA t : ~t.is_income),
                                       tiesInOrder))

CallGenerateInsights ==
    \E user_id \in UserPathInputs :
        /\ UserRows(user_id) # <<>>
        /\ Read("generate_insights", user_id,
                generate_insights(UserRows(user_id),
                                  SelectSeq(UserRows(user_id), LAMBDA t : ~t.is_income),
                                  SelectSeq(UserRows(user_id), LAMBDA t : t.is_income)))

NextDashboard ==
    \/ GetCategoryStats
    \/ CallGetCategoryBreakdown
    \/ CallGenerateInsights

SpecDashboard == InitDashboard /\ [][NextDashboard]_vars

----------------------------------------------------------------------------
(* security.py: rate_limit_check called directly, one call at a time, with a
   limit and a window small enough for a client to reach the limit and for
   its timestamps to age out.  time.time() is read once per call and does
   not run backwards. *)

LimitInputs == {1, 2}

WindowInputs == {2, 3}

InitRate ==
    /\ store = <<>>
    /\ categorizer = "None"
    /\ predictor = [model |-> None, scaler |-> [fitted |-> FALSE, n_features_in_ |-> 0, n_samples_seen_ |-> 0],
                    feature_columns |-> <<>>]
    /\ anomaly_detector = [isolation_forest |-> None,
                           scaler |-> [fitted |-> FALSE, n_features_in_ |-> 0, n_samples_seen_ |-> 0],
                           feature_columns |-> <<>>]
    /\ request_counts = [ip \in ClientIPs |-> <<>>]
    /\ now = 0
    /\ \E limit \in LimitInputs, window \in WindowInputs :
          request = [op |-> "none", limit |-> limit, window |-> window, calls |-> <<>>]
    /\ categorizer_calls = <<>>
    /\ response = [op |-> "none", status |-> 0, body |-> [detail |-> ""]]
    /\ bulk_count = 0

\* rate_limit_check(client_ip, limit, window) after `elapsed` seconds;
\* request.calls keeps every call made with what it returned
CallRateLimitCheck ==
    \E client_ip \in ClientIPs, elapsed \in 0..(request.window + 1) :
        LET t == now + elapsed
            rl == rate_limit_check(request_counts[client_ip], t, request.limit, request.window)
        IN  /\ Len(request.calls) < MaxRequests
            /\ now' = t
            /\ request_counts' = [request_counts EXCEPT ![client_ip] = rl[2]]
            /\ request' = [request EXCEPT
                              !.op = "rate_limit_check",
                              !.calls = Append(@, [client_ip |-> client_ip, time |-> t,
                                                   returned |-> rl[1]])]
            /\ response' = [op |-> "rate_limit_check", status |-> 0, body |-> rl[1]]
            /\ UNCHANGED <<store, categorizer, predictor, anomaly_detector,
                           categorizer_calls, bulk_count>>

NextRate == CallRateLimitCheck

SpecRate == InitRate /\ [][NextRate]_vars

----------------------------------------------------------------------------
(* anomaly_detector.py: _get_severity and _assess_risk_level on their own,
   with the amounts and scores around their limits and every reason list
   _analyze_anomaly_reasons can build *)

RuleReasons ==
    <<"Amount significantly higher than usual spending",
      "Transaction occurred during unusual hours (night)",
      "Spending in rarely used category",
      "Unusually high number of transactions in one day",
      "Sudden change in spending pattern">>

GENERAL_REASON == "General spending pattern deviation"

\* the reasons of the rules in `fired`, in rule order, or the general one
ReasonsOf(fired) ==
    LET ks == SelectSeq([k \in DOMAIN RuleReasons |-> k], LAMBDA k : k \in fired)
    IN  IF ks = <<>> THEN <<GENERAL_REASON>> ELSE [i \in DOMAIN ks |-> RuleReasons[ks[i]]]

ReasonInputs == {ReasonsOf(fired) : fired \in SUBSET DOMAIN RuleReasons}

RiskAmountInputs ==
    {0, RISK_AMOUNT_ELEVATED, RISK_AMOUNT_ELEVATED + 1, RISK_AMOUNT_HIGH, RISK_AMOUNT_HIGH + 1}

\* anomaly scores in hundredths
ScoreInputs ==
    {SEVERITY_HIGH_BELOW - 1, SEVERITY_HIGH_BELOW, SEVERITY_HIGH_BELOW + 1,
     SEVERITY_MEDIUM_BELOW - 1, SEVERITY_MEDIUM_BELOW, SEVERITY_MEDIUM_BELOW + 1, 0}

InitRisk ==
    /\ store = <<>>
    /\ categorizer = "None"
    /\ predictor = [model |-> None, scaler |-> [fitted |-> FALSE, n_features_in_ |-> 0, n_samples_seen_ |-> 0],
                    feature_columns |-> <<>>]
    /\ anomaly_detector = [isolation_forest |-> None,
                           scaler |-> [fitted |-> FALSE, n_features_in_ |-> 0, n_samples_seen_ |-> 0],
                           feature_columns |-> <<>>]
    /\ request_counts = [ip \in ClientIPs |-> <<>>]
    /\ now = 0
    /\ \E amount \in RiskAmountInputs, reasons \in ReasonInputs, anomaly_score \in ScoreInputs :
          request = [op |-> "assess", transaction |-> [amount |-> amount],
                     reasons |-> reasons, anomaly_score |-> anomaly_score]
    /\ categorizer_calls = <<>>
    /\ response = Reply("none", 0, [detail |-> ""])
    /\ bulk_count = 0

\* the two calls detect_anomalies makes for a flagged row
AssessFlaggedRow ==
    /\ response.op = "none"
    /\ response' = [op |-> "assess",
                    severity |-> get_severity(request.anomaly_score),
                    risk_level |-> assess_risk_level(request.transaction, request.reasons)]
    /\ UNCHANGED <<store, categorizer, predictor, anomaly_detector, request_counts, now,
                   request, categorizer_calls, bulk_count>>

NextRisk == AssessFlaggedRow

SpecRisk == InitRisk /\ [][NextRisk]_vars

----------------------------------------------------------------------------
(* api/recommendations.py, the budget handler of api/predictions.py and the
   reporting handlers of api/dashboard.py.  Amounts are thousandths of a
   dollar.  A float the code computes is kept exact, as the fraction
   <<numerator, denominator>> in lowest terms; the floats that are not
   numbers are NaN and Infinity below. *)

RECURSIVE Gcd(_, _)
Gcd(a, b) == IF b = 0 THEN a ELSE Gcd(b, a % b)

\* n / d in lowest terms, the denominator positive
Ratio(n, d) ==
    LET g == Gcd(Abs(n), Abs(d))
    IN  IF d < 0 THEN <<(-n) \div g, (-d) \div g>> ELSE <<n \div g, d \div g>>

Zero == <<0, 1>>

RAdd(a, b) == Ratio(a[1] * b[2] + b[1] * a[2], a[2] * b[2])

RSub(a, b) == Ratio(a[1] * b[2] - b[1] * a[2], a[2] * b[2])

\* a * n / d
RTimes(a, n, d) == Ratio(a[1] * n, a[2] * d)

\* a / b for b other than zero
RDiv(a, b) == Ratio(a[1] * b[2], a[2] * b[1])

RLess(a, b) == a[1] * b[2] < b[1] * a[2]

RLeq(a, b) == a[1] * b[2] <= b[1] * a[2]

RMin(a, b) == IF RLeq(b, a) THEN b ELSE a

NaN == [float |-> "nan"]

Infinity == [float |-> "inf"]

Finite(x) == [float |-> "finite", value |-> x]

\* Series.dt.to_period('M') within 2024
MonthOf(d) == MonthDay(DayOf(d), 1)[1]

\* rows.groupby(rows['date'].dt.to_period('M'))['amount'].sum().mean(): NaN
\* for a frame without rows
MonthlyMean(rows) ==
    IF rows = <<>> THEN NaN
    ELSE Finite(Ratio(AmountSum(rows),
                      Cardinality({MonthOf(rows[i].date) : i \in DOMAIN rows})))

\* the income the handlers work with: the monthly mean of the income rows,
\* or `n / d` of the monthly spending when that mean is NaN or not positive
IncomeOrEstimate(monthly_income, monthly_spending, n, d) ==
    IF monthly_income = NaN \/ ~RLess(Zero, monthly_income.value)
    THEN IF monthly_spending = NaN THEN NaN ELSE Finite(RTimes(monthly_spending.value, n, d))
    ELSE monthly_income

SpendingRows(rows) == SelectSeq(rows, LAMBDA t : ~t.is_income)

IncomeRows(rows) == SelectSeq(rows, LAMBDA t : t.is_income)

\* json.dumps(..., allow_nan=False) of the returned dict: a float that is not
\* a number cannot be encoded and the request ends with 500
Encoded(op, floats, body) ==
    IF \E x \in floats : x.float # "finite"
    THEN Reply(op, 500, INTERNAL_SERVER_ERROR)
    ELSE Reply(op, 200, body)

\* the dict `goals` of get_savings_goals_recommendations, in insertion order
SavingsGoals(monthly_spending, monthly_income) ==
    <<[name |-> "Emergency Fund", target_amount |-> RTimes(monthly_spending, 6, 1),
       priority |-> 1, timeline_months |-> 12],
      [name |-> "Vacation Fund", target_amount |-> RTimes(monthly_spending, 1, 2),
       priority |-> 3, timeline_months |-> 6],
      [name |-> "Home Down Payment", target_amount |-> RTimes(monthly_income, 24, 1),
       priority |-> 2, timeline_months |-> 60],
      [name |-> "Car Replacement", target_amount |-> RTimes(monthly_income, 6, 1),
       priority |-> 4, timeline_months |-> 36],
      [name |-> "Retirement Boost", target_amount |-> RTimes(monthly_income, 12, 1),
       priority |-> 2, timeline_months |-> 24]>>

\* sorted(goals.items(), key=lambda x: x[1]["priority"]): stable
RECURSIVE InsertByPriority(_, _)
InsertByPriority(sorted, goal) ==
    IF sorted = <<>> THEN <<goal>>
    ELSE IF goal.priority < Head(sorted).priority THEN <<goal>> \o sorted
    ELSE <<Head(sorted)>> \o InsertByPriority(Tail(sorted), goal)

RECURSIVE SortByPriority(_)
SortByPriority(goals) ==
    IF goals = <<>> THEN <<>>
    ELSE InsertByPriority(SortByPriority(SubSeq(goals, 1, Len(goals) - 1)), goals[Len(goals)])

\* one pass of the loop over the sorted goals: the goal's entry, given the
\* surplus and what the goals before it were allotted
GoalRecommendation(goal, monthly_surplus, total_monthly_needed) ==
    LET monthly_needed == RTimes(goal.target_amount, 1, goal.timeline_months)
        left == RSub(monthly_surplus, total_monthly_needed)
        feasible == IF RLess(Zero, monthly_surplus) THEN RLeq(monthly_needed, left) ELSE FALSE
        adjusted_timeline ==
            IF left = Zero
            THEN IF goal.target_amount = Zero THEN NaN ELSE Infinity
            ELSE Finite(RDiv(goal.target_amount, left))
        \* max(goal["timeline_months"], adjusted_timeline)
        longest ==
            IF adjusted_timeline = NaN THEN Finite(<<goal.timeline_months, 1>>)
            ELSE IF adjusted_timeline = Infinity THEN Infinity
            ELSE IF RLess(<<goal.timeline_months, 1>>, adjusted_timeline.value)
            THEN adjusted_timeline
            ELSE Finite(<<goal.timeline_months, 1>>)
    IN  [name |-> goal.name,
         target_amount |-> goal.target_amount,
         monthly_needed |-> monthly_needed,
         timeline_months |-> goal.timeline_months,
         priority |-> goal.priority,
         feasible |-> feasible,
         status |-> IF feasible THEN "recommended" ELSE "stretch_goal",
         adjusted_timeline_months |->
             IF ~feasible /\ RLess(Zero, monthly_surplus) THEN Some(longest) ELSE None]

\* the loop: the entries of the first k goals and total_monthly_needed after them
RECURSIVE RecommendGoals(_, _, _)
RecommendGoals(goals, monthly_surplus, k) ==
    IF k = 0 THEN [savings_goals |-> <<>>, total_monthly_needed |-> Zero]
    ELSE LET before == RecommendGoals(goals, monthly_surplus, k - 1)
             entry == GoalRecommendation(goals[k], monthly_surplus, before.total_monthly_needed)
         IN  [savings_goals |-> Append(before.savings_goals, entry),
              total_monthly_needed |->
                  IF entry.feasible
                  THEN RAdd(before.total_monthly_needed, entry.monthly_needed)
                  ELSE before.total_monthly_needed]

\* the dict get_savings_goals_recommendations builds from the user's rows
\* (five or more of them)
savings_goals_recommendations(transactions) ==
    LET monthly_spending == MonthlyMean(SpendingRows(transactions))
        monthly_income == IncomeOrEstimate(MonthlyMean(IncomeRows(transactions)),
                                           monthly_spending, 6, 5)
    IN  IF monthly_spending = NaN
        THEN \* every amount derived from the spending is NaN and every
             \* comparison with it false
             [user_profile |-> [monthly_income |-> monthly_income, monthly_spending |-> NaN,
                                monthly_surplus |-> NaN, savings_capacity |-> "deficit"],
              savings_goals |->
                  [i \in 1..5 |->
                      [name |-> SortByPriority(SavingsGoals(Zero, Zero))[i].name,
                       priority |-> SortByPriority(SavingsGoals(Zero, Zero))[i].priority,
                       timeline_months |-> SortByPriority(SavingsGoals(Zero, Zero))[i].timeline_months,
                       feasible |-> FALSE, status |-> "stretch_goal",
                       adjusted_timeline_months |-> None]],
              recommended_strategy |-> [strategy |-> "expense_reduction_first",
                                        deficit_amount |-> NaN]]
        ELSE
        LET monthly_surplus == RSub(monthly_income.value, monthly_spending.value)
            goals == SortByPriority(SavingsGoals(monthly_spending.value, monthly_income.value))
            loop == RecommendGoals(goals, monthly_surplus, Len(goals))
        IN  [user_profile |->
                 [monthly_income |-> monthly_income, monthly_spending |-> monthly_spending,
                  monthly_surplus |-> Finite(monthly_surplus),
                  savings_capacity |->
                      IF RLess(RTimes(monthly_income.value, 1, 5), monthly_surplus) THEN "good"
                      ELSE IF RLess(Zero, monthly_surplus) THEN "limited" ELSE "deficit"],
             savings_goals |-> loop.savings_goals,
             recommended_strategy |->
                 IF RLess(Zero, monthly_surplus)
                 THEN [strategy |-> "automated_savings",
                       total_monthly_allocation |->
                           Finite(RMin(loop.total_monthly_needed, monthly_surplus)),
                       allocation_percentage |->
                           Finite(RTimes(RDiv(RMin(loop.total_monthly_needed, monthly_surplus),
                                              monthly_income.value), 100, 1))]
                 ELSE [strategy |-> "expense_reduction_first",
                       deficit_amount |-> Finite(<<Abs(monthly_surplus[1]), monthly_surplus[2]>>)]]

\* the floats of the dict that the encoder meets
SavingsGoalsFloats(recommendations) ==
    {recommendations.user_profile.monthly_income, recommendations.user_profile.monthly_spending,
     recommendations.user_profile.monthly_surplus}
    \cup {recommendations.savings_goals[i].adjusted_timeline_months[1] :
            i \in {j \in DOMAIN recommendations.savings_goals :
                     recommendations.savings_goals[j].adjusted_timeline_months # None}}

MIN_SAVINGS_TRANSACTIONS == 5

\* GET /api/recommendations/savings-goals/{user_id}
get_savings_goals_recommendations(user_id) ==
    LET transactions == UserRows(user_id)
    IN  IF Len(transactions) < MIN_SAVINGS_TRANSACTIONS
        THEN Reply("get_savings_goals_recommendations", 400,
                   [detail |-> "Need at least 5 transactions for savings recommendations"])
        ELSE LET recommendations == savings_goals_recommendations(transactions)
             IN  Encoded("get_savings_goals_recommendations",
                         SavingsGoalsFloats(recommendations), recommendations)

\* df.groupby('category')['amount'].sum() as the pairs <<category, sum>> in
\* index order
CategorySums(rows) ==
    [i \in DOMAIN GroupIndex(rows) |->
        <<GroupIndex(rows)[i], AmountSum(InCategory(rows, GroupIndex(rows)[i]))>>]

\* category_spending[category_spending.index.isin(names)].sum()
SumOfCategories(rows, names) ==
    AmountSum(SelectSeq(rows, LAMBDA r : r.category # None /\ r.category[1] \in names))

NEED_CATEGORIES == {"Bills & Utilities", "Food & Dining", "Transportation", "Healthcare"}

WANT_CATEGORIES == {"Entertainment", "Shopping", "Travel"}

MIN_BUDGET_TRANSACTIONS == 10

SAVINGS_RATE_TARGET == 20

\* GET /api/predictions/budget-recommendation/{user_id}; income_param is the
\* query parameter monthly_income, absent or an amount
get_budget_recommendation(user_id, income_param) ==
    LET transactions == UserRows(user_id)
        spending_df == SpendingRows(transactions)
        monthly_spending == MonthlyMean(spending_df)
        monthly_income ==
            IF income_param # None THEN Finite(<<income_param[1], 1>>)
            ELSE IncomeOrEstimate(MonthlyMean(IncomeRows(transactions)), monthly_spending, 3, 2)
        positive == monthly_income # NaN /\ RLess(Zero, monthly_income.value)
        savings_rate ==
            IF ~positive THEN Finite(Zero)
            ELSE IF monthly_spending = NaN THEN NaN
            ELSE Finite(RTimes(RDiv(RSub(monthly_income.value, monthly_spending.value),
                                    monthly_income.value), 100, 1))
        share(n, d) == IF monthly_income = NaN THEN NaN ELSE Finite(RTimes(monthly_income.value, n, d))
        current_needs == SumOfCategories(spending_df, NEED_CATEGORIES)
        current_wants == SumOfCategories(spending_df, WANT_CATEGORIES)
        exceeds(current, budget) == budget # NaN /\ RLess(budget.value, <<current, 1>>)
        sums == CategorySums(spending_df)
    IN  IF Len(transactions) < MIN_BUDGET_TRANSACTIONS
        THEN Reply("get_budget_recommendation", 400,
                   [detail |-> "Need at least 10 transactions for budget recommendations"])
        ELSE Encoded("get_budget_recommendation",
                     {monthly_income, monthly_spending, savings_rate},
                     [monthly_income |-> monthly_income,
                      current_monthly_spending |-> monthly_spending,
                      savings_rate |-> savings_rate,
                      recommended_budget |->
                          [needs |-> share(1, 2), wants |-> share(3, 10), savings |-> share(1, 5)],
                      category_analysis |->
                          [i \in DOMAIN sums |->
                              [category |-> sums[i][1],
                               current_amount |-> sums[i][2],
                               percentage_of_spending |->
                                   IF RLess(Zero, monthly_spending.value)
                                   THEN RTimes(RDiv(<<sums[i][2], 1>>, monthly_spending.value), 100, 1)
                                   ELSE Zero,
                               category_type |->
                                   IF sums[i][1] \in NEED_CATEGORIES THEN "need" ELSE "want"]],
                      recommendations |->
                          (IF exceeds(current_needs, share(1, 2)) THEN <<"reduce_needs">> ELSE <<>>)
                          \o (IF exceeds(current_wants, share(3, 10)) THEN <<"reduce_wants">> ELSE <<>>)
                          \o (IF savings_rate # NaN
                                 /\ RLess(savings_rate.value, <<SAVINGS_RATE_TARGET, 1>>)
                              THEN <<"increase_savings">> ELSE <<>>)])

\* risk_profiles: stocks, bonds and cash in percent
RiskProfiles ==
    [conservative |-> [stocks |-> 30, bonds |-> 60, cash |-> 10],
     moderate |-> [stocks |-> 60, bonds |-> 30, cash |-> 10],
     aggressive |-> [stocks |-> 80, bonds |-> 15, cash |-> 5]]

GROWTH_YEARS == <<1, 5, 10, 20, 30>>

MIN_INVESTMENT_TRANSACTIONS == 10

\* GET /api/recommendations/investment/{user_id}; of projected_growth the
\* model keeps total_invested (the compound values are powers it does not
\* compute)
get_investment_recommendations(user_id, risk_tolerance) ==
    LET transactions == UserRows(user_id)
        monthly_spending == MonthlyMean(SpendingRows(transactions))
        monthly_income == IncomeOrEstimate(MonthlyMean(IncomeRows(transactions)),
                                           monthly_spending, 13, 10)
        profile == IF risk_tolerance \in DOMAIN RiskProfiles
                   THEN RiskProfiles[risk_tolerance] ELSE RiskProfiles["moderate"]
    IN  IF Len(transactions) < MIN_INVESTMENT_TRANSACTIONS
        THEN Reply("get_investment_recommendations", 400,
                   [detail |-> "Need at least 10 transactions for investment recommendations"])
        ELSE IF monthly_spending = NaN
        THEN Reply("get_investment_recommendations", 500, INTERNAL_SERVER_ERROR)
        ELSE
        LET monthly_surplus == RSub(monthly_income.value, monthly_spending.value)
            emergency_fund_needed == RTimes(monthly_spending.value, 6, 1)
            building == RLess(monthly_surplus, RTimes(emergency_fund_needed, 1, 6))
            investment_amount ==
                IF building THEN RTimes(monthly_surplus, 1, 5) ELSE RTimes(monthly_surplus, 4, 5)
            investment_monthly == RTimes(monthly_surplus, 4, 5)
        IN  Reply("get_investment_recommendations", 200,
                  [user_profile |->
                       [monthly_income |-> monthly_income, monthly_spending |-> monthly_spending,
                        monthly_surplus |-> monthly_surplus, risk_tolerance |-> risk_tolerance],
                   emergency_fund |->
                       [recommended_amount |-> emergency_fund_needed,
                        priority |-> IF RLess(Zero, monthly_surplus) THEN "high" ELSE "critical"],
                   investment_allocation |-> profile,
                   specific_recommendations |->
                       IF RLess(Zero, monthly_surplus)
                       THEN (IF building
                             THEN <<[type |-> "emergency_fund",
                                     allocation |-> RMin(RTimes(monthly_surplus, 4, 5),
                                                         RTimes(emergency_fund_needed, 1, 6))]>>
                             ELSE <<>>)
                            \o <<[type |-> "index_funds",
                                  allocation |-> RTimes(investment_amount, profile.stocks, 100)],
                                 [type |-> "bonds",
                                  allocation |-> RTimes(investment_amount, profile.bonds, 100)]>>
                       ELSE <<[type |-> "budget_optimization", allocation |-> Zero]>>,
                   projected_growth |->
                       IF RLess(Zero, monthly_surplus)
                       THEN [i \in DOMAIN GROWTH_YEARS |->
                                [years |-> GROWTH_YEARS[i],
                                 total_invested |-> RTimes(investment_monthly, GROWTH_YEARS[i] * 12, 1)]]
                       ELSE <<>>])

\* the rows dated within `days` days before the newest row, the newest day
\* included: df[df['date'] >= recent_date - timedelta(days=days)]
Since(rows, recent_date, days) ==
    SelectSeq(rows, LAMBDA r : r.date >= recent_date - 24 * days)

RecentDate(rows) == MaxOfSet({rows[i].date : i \in DOMAIN rows})

SUBSCRIPTION_STEP == 5000

MIN_SIMILAR == 3

\* (df['amount'] / 5).round() * 5, amounts in thousandths
AmountRounded(amount) == RoundHalfEven(amount, SUBSCRIPTION_STEP) * SUBSCRIPTION_STEP

RECURSIVE SumInts(_)
SumInts(values) == IF values = <<>> THEN 0 ELSE Head(values) + SumInts(Tail(values))

\* detect_subscriptions(df): the rounded amounts, in order of first
\* appearance, that three or more rows share and whose dates lie 25 to 35
\* days apart on average
detect_subscriptions(df) ==
    LET firsts == SelectSeq([i \in DOMAIN df |-> i],
                            LAMBDA i : \A j \in 1..(i - 1) :
                                AmountRounded(df[j].amount) # AmountRounded(df[i].amount))
        similar(i) == SelectSeq(df, LAMBDA r : AmountRounded(r.amount) = AmountRounded(df[i].amount))
        dates(i) == SortInts([k \in DOMAIN similar(i) |-> similar(i)[k].date])
        intervals(i) == [k \in 1..(Len(dates(i)) - 1) |-> (dates(i)[k + 1] - dates(i)[k]) \div 24]
        monthly(i) == /\ Len(similar(i)) >= MIN_SIMILAR
                      /\ 25 * Len(intervals(i)) <= SumInts(intervals(i))
                      /\ SumInts(intervals(i)) <= 35 * Len(intervals(i))
        found == SelectSeq(firsts, LAMBDA i : monthly(i))
    IN  [k \in DOMAIN found |->
            [description |-> similar(found[k])[1].description,
             monthly_cost |-> AmountRounded(df[found[k]].amount),
             frequency |-> Len(similar(found[k])),
             category |-> similar(found[k])[1].category]]

REDUCIBLE_CATEGORIES == {"Food & Dining", "Entertainment", "Shopping"}

MIN_OPTIMIZATION_TRANSACTIONS == 10

\* GET /api/recommendations/spending-optimization/{user_id}; tiesInOrder is
\* how sort_values leaves categories of equal totals
get_spending_optimization(user_id, tiesInOrder) ==
    LET df == SpendingRows(UserRows(user_id))
        total_spending == AmountSum(df)
        index == GroupIndex(df)
        totals == [c \in Range(index) |-> AmountSum(InCategory(df, c))]
        category_spending == SortDescending(index, totals, tiesInOrder)
        recent_date == RecentDate(df)
        last_30_days == Since(df, recent_date, 30)
        previous_30_days == SelectSeq(Since(df, recent_date, 60),
                                      LAMBDA r : r.date < recent_date - 24 * 30)
        recent_total == AmountSum(last_30_days)
        previous_total == AmountSum(previous_30_days)
        \* change_percent > k, the change being 0 when previous_total is not positive
        change_above(k) == previous_total > 0
                           /\ 100 * (recent_total - previous_total) > k * previous_total
        change_below(k) == previous_total > 0
                           /\ 100 * (recent_total - previous_total) < k * previous_total
        high_spending == SelectSeq(category_spending,
                                   LAMBDA c : /\ 20 * totals[c] > 3 * total_spending
                                              /\ c \in REDUCIBLE_CATEGORIES)
        potential_subscriptions == detect_subscriptions(df)
    IN  IF Len(df) < MIN_OPTIMIZATION_TRANSACTIONS
        THEN Reply("get_spending_optimization", 400,
                   [detail |-> "Need at least 10 spending transactions for optimization analysis"])
        ELSE IF total_spending = 0
        THEN \* percentage_of_total is 0.0 / 0.0, a NaN the encoder refuses
             Reply("get_spending_optimization", 500, INTERNAL_SERVER_ERROR)
        ELSE Reply("get_spending_optimization", 200,
                   [spending_analysis |->
                        [total_spending |-> total_spending,
                         average_transaction |-> Ratio(total_spending, Len(df)),
                         transaction_count |-> Len(df),
                         top_categories |->
                             [i \in 1..(IF Len(category_spending) < 5 THEN Len(category_spending) ELSE 5) |->
                                 <<category_spending[i], totals[category_spending[i]]>>]],
                    category_insights |->
                        [i \in DOMAIN category_spending |->
                            LET c == category_spending[i]
                                n == Len(InCategory(df, c))
                            IN  [category |-> c,
                                 total_spent |-> totals[c],
                                 percentage_of_total |-> Ratio(100 * totals[c], total_spending),
                                 transaction_count |-> n,
                                 average_per_transaction |-> Ratio(totals[c], n),
                                 frequency |-> IF 5 * n > Len(df) THEN "high"
                                               ELSE IF 10 * n > Len(df) THEN "medium" ELSE "low"]],
                    optimization_opportunities |->
                        [i \in DOMAIN high_spending |->
                            [type |-> "high_spending", category |-> high_spending[i],
                             suggested_reduction |-> Ratio(totals[high_spending[i]], 10)]]
                        \o (IF Len(previous_30_days) > 0 /\ change_above(10)
                            THEN <<[type |-> "spending_increase"]>> ELSE <<>>)
                        \o (IF potential_subscriptions # <<>>
                            THEN <<[type |-> "subscription_review",
                                    subscriptions |-> potential_subscriptions,
                                    potential_savings |->
                                        SumInts([k \in DOMAIN potential_subscriptions |->
                                                   potential_subscriptions[k].monthly_cost])]>>
                            ELSE <<>>),
                    trend_analysis |->
                        IF Len(previous_30_days) > 0
                        THEN <<[recent_30_days |-> recent_total,
                                previous_30_days |-> previous_total,
                                trend |-> IF change_above(5) THEN "increasing"
                                          ELSE IF change_below(-5) THEN "decreasing"
                                          ELSE "stable"]>>
                        ELSE <<>>])

\* the elements of a set of integers, ascending
RECURSIVE Ascending(_)
Ascending(S) == IF S = {} THEN <<>> ELSE <<MinOfSet(S)>> \o Ascending(S \ {MinOfSet(S)})

\* the months with rows, ascending
MonthsOf(rows) == Ascending({MonthOf(rows[i].date) : i \in DOMAIN rows})

\* get_monthly_trends(df)["data"], and the monthly_comparison chart
get_monthly_trends(df) ==
    [i \in DOMAIN MonthsOf(df) |->
        LET month == MonthsOf(df)[i]
            rows == SelectSeq(df, LAMBDA r : MonthOf(r.date) = month)
        IN  [month |-> month,
             income |-> AmountSum(IncomeRows(rows)),
             expenses |-> AmountSum(SpendingRows(rows)),
             net |-> AmountSum(IncomeRows(rows)) - AmountSum(SpendingRows(rows))]]

\* get_spending_timeline(expenses_df)["data"]: the daily totals of the last 30 days
get_spending_timeline(expenses_df) ==
    IF Len(expenses_df) = 0 THEN <<>>
    ELSE LET last_30_days == Since(expenses_df, RecentDate(expenses_df), 30)
             days == Ascending({DayOf(last_30_days[i].date) : i \in DOMAIN last_30_days})
         IN  [i \in DOMAIN days |->
                 [date |-> Strftime(24 * days[i]),
                  amount |-> AmountSum(SelectSeq(last_30_days, LAMBDA r : DayOf(r.date) = days[i]))]]

\* GET /api/dashboard/overview/{user_id}
get_dashboard_overview(user_id, tiesInOrder) ==
    LET df == UserRows(user_id)
        expenses_df == SpendingRows(df)
        income_df == IncomeRows(df)
        total_income == AmountSum(income_df)
        total_expenses == AmountSum(expenses_df)
        last_30_days == Since(df, RecentDate(df), 30)
        insights == generate_insights(df, expenses_df, income_df)
    IN  IF df = <<>>
        THEN Reply("get_dashboard_overview", 200,
                   [message |-> "No transactions found", user_id |-> user_id])
        ELSE IF insights.raised # "no"
        THEN Reply("get_dashboard_overview", 500, INTERNAL_SERVER_ERROR)
        ELSE Reply("get_dashboard_overview", 200,
                   [user_id |-> user_id,
                    overview |->
                        [total_income |-> total_income,
                         total_expenses |-> total_expenses,
                         net_worth_change |-> total_income - total_expenses,
                         savings_rate |-> IF total_income > 0
                                          THEN Ratio(100 * (total_income - total_expenses), total_income)
                                          ELSE Zero,
                         recent_30_days |->
                             [income |-> AmountSum(IncomeRows(last_30_days)),
                              expenses |-> AmountSum(SpendingRows(last_30_days))],
                         transaction_count |-> Len(df),
                         anomaly_count |-> Len(SelectSeq(df, LAMBDA r : r.is_anomaly))],
                    charts |->
                        [monthly_trends |-> get_monthly_trends(df),
                         category_breakdown |-> get_category_breakdown(expenses_df, tiesInOrder),
                         spending_timeline |-> get_spending_timeline(expenses_df)],
                    insights |-> insights.value])

ChartTypeInputs ==
    {"spending_by_day_of_week", "monthly_comparison", "category_trends", "pie"}

TOP_CATEGORIES == 5

\* Series.nlargest(5).index: the largest totals, the earlier index entry
\* first among equal ones
RECURSIVE NLargest(_, _, _)
NLargest(cats, totals, n) ==
    IF n = 0 \/ cats = <<>> THEN <<>>
    ELSE LET best == CHOOSE i \in DOMAIN cats :
                        /\ \A j \in DOMAIN cats : totals[cats[i]] >= totals[cats[j]]
                        /\ \A j \in 1..(i - 1) : totals[cats[j]] < totals[cats[i]]
         IN  <<cats[best]>> \o NLargest(SelectSeq(cats, LAMBDA c : c # cats[best]), totals, n - 1)

\* GET /api/dashboard/charts/{user_id}?chart_type=
get_chart_data(user_id, chart_type) ==
    LET df == UserRows(user_id)
        expenses_df == SpendingRows(df)
        index == GroupIndex(expenses_df)
        totals == [c \in Range(index) |-> AmountSum(InCategory(expenses_df, c))]
        top_categories == NLargest(index, totals, TOP_CATEGORIES)
    IN  IF df = <<>>
        THEN Reply("get_chart_data", 200, [data |-> <<>>, message |-> "No data available"])
        ELSE IF chart_type = "spending_by_day_of_week"
        THEN Reply("get_chart_data", 200,
                   [chart_type |-> chart_type,
                    data |-> [day \in 1..7 |->
                                 LET rows == SelectSeq(expenses_df, LAMBDA r : Weekday(r.date) = day - 1)
                                 IN  IF rows = <<>> THEN Zero ELSE Ratio(AmountSum(rows), Len(rows))]])
        ELSE IF chart_type = "monthly_comparison"
        THEN Reply("get_chart_data", 200,
                   [chart_type |-> chart_type,
                    data |-> [i \in DOMAIN get_monthly_trends(df) |->
                                 [month |-> get_monthly_trends(df)[i].month,
                                  income |-> get_monthly_trends(df)[i].income,
                                  expenses |-> get_monthly_trends(df)[i].expenses]]])
        ELSE IF chart_type = "category_trends"
        THEN Reply("get_chart_data", 200,
                   [chart_type |-> chart_type,
                    data |-> [i \in DOMAIN top_categories |->
                                 LET cat_data == InCategory(expenses_df, top_categories[i])
                                 IN  [category |-> top_categories[i],
                                      data |-> [k \in DOMAIN MonthsOf(cat_data) |->
                                                   [month |-> MonthsOf(cat_data)[k],
                                                    amount |-> AmountSum(SelectSeq(cat_data,
                                                        LAMBDA r : MonthOf(r.date) = MonthsOf(cat_data)[k]))]]]]])
        ELSE Reply("get_chart_data", 400, [detail |-> <<"Unknown chart type: ", chart_type>>])

FormatInputs == {"json", "CSV"}

\* str.lower() on the format strings of the model
Lower(text) == IF text = "CSV" THEN "csv" ELSE text

\* GET /api/dashboard/export/{user_id}?format=; today is what datetime.now()
\* returns while the request is handled
export_financial_data(user_id, format, today) ==
    LET transactions == UserRows(user_id)
        export_data ==
            [i \in DOMAIN transactions |->
                [id |-> transactions[i].id, date |-> transactions[i].date,
                 amount |-> transactions[i].amount, description |-> transactions[i].description,
                 category |-> transactions[i].category,
                 predicted_category |-> transactions[i].predicted_category,
                 is_income |-> transactions[i].is_income,
                 is_anomaly |-> transactions[i].is_anomaly,
                 confidence_score |-> transactions[i].confidence_score]]
    IN  IF transactions = <<>>
        THEN Reply("export_financial_data", 404, [detail |-> "No transactions found"])
        ELSE IF Lower(format) = "csv"
        THEN Reply("export_financial_data", 200,
                   [format |-> "csv", data |-> export_data,
                    filename |-> <<"financeai_export_", user_id, "_", Strftime(today), ".csv">>])
        ELSE Reply("export_financial_data", 200,
                   [format |-> "json", data |-> export_data, export_date |-> today,
                    user_id |-> user_id, transaction_count |-> Len(export_data)])

\* The tables the reporting handlers are read on: a block of spending rows
\* followed by a block of income rows, all of the valid user.
ReportRow(amount, category, date, is_income) ==
    [user_id |-> ValidUser, amount |-> amount, description |-> "c",
     category |-> Some(category), predicted_category |-> None, confidence_score |-> None,
     date |-> date, is_income |-> is_income, is_anomaly |-> FALSE]

\* n spending rows of `amount`, `gap` days apart from day `first` on, the
\* categories taking turns
SpendingBlock(n, amount, first, gap) ==
    [i \in 1..n |->
        ReportRow(amount,
                  IF i % 3 = 0 THEN "Shopping" ELSE IF i % 3 = 1 THEN "Food & Dining" ELSE "Travel",
                  24 * (first + gap * (i - 1)) + 12, FALSE)]

SpendingBlockInputs ==
    {<<>>,
     SpendingBlock(3, 200, 2, 1),
     SpendingBlock(5, 200, 2, 1),
     SpendingBlock(10, 100, 2, 1),
     SpendingBlock(10, 0, 2, 1),
     SpendingBlock(10, 12000, 2, 30)}

IncomeBlockInputs ==
    {<<>>,
     <<ReportRow(800, "Income", 24 + 9, TRUE)>>,
     <<ReportRow(1500, "Income", 24 + 9, TRUE)>>,
     <<ReportRow(3000, "Income", 24 + 9, TRUE)>>,
     <<ReportRow(2500, "Income", 24 + 9, TRUE)>>,
     [i \in 1..5 |-> ReportRow(600, "Income", 24 * 31 * (i - 1) + 9, TRUE)]}

InitReports ==
    /\ store \in {WithIds(spending \o income) :
                     spending \in SpendingBlockInputs, income \in IncomeBlockInputs}
    /\ categorizer = "None"
    /\ predictor = [model |-> None, scaler |-> [fitted |-> FALSE, n_features_in_ |-> 0, n_samples_seen_ |-> 0],
                    feature_columns |-> <<>>]
    /\ anomaly_detector = [isolation_forest |-> None,
                           scaler |-> [fitted |-> FALSE, n_features_in_ |-> 0, n_samples_seen_ |-> 0],
                           feature_columns |-> <<>>]
    /\ request_counts = [ip \in ClientIPs |-> <<>>]
    /\ now = 0
    /\ request = [op |-> "none"]
    /\ categorizer_calls = <<>>
    /\ response = Reply("none", 0, [detail |-> ""])
    /\ bulk_count = 0

\* variant: a report marks the rows it has read
Report_marking(op, user_id, params, reply) ==
    /\ request' = [op |-> op, user_id |-> user_id, params |-> params]
    /\ response' = reply
    /\ store' = [i \in DOMAIN store |-> [store[i] EXCEPT !.is_anomaly = TRUE]]
    /\ UNCHANGED <<categorizer, predictor, anomaly_detector, request_counts, now,
                   categorizer_calls, bulk_count>>

\* what a reporting request does: it answers, and writes neither the table
\* nor a singleton
Report(op, user_id, params, reply) ==
    /\ request' = [op |-> op, user_id |-> user_id, params |-> params]
    /\ response' = reply
    /\ UNCHANGED <<store, categorizer, predictor, anomaly_detector, request_counts, now,
                   categorizer_calls, bulk_count>>

GetDashboardOverview ==
    \E user_id \in UserPathInputs, tiesInOrder \in BOOLEAN :
        Report("get_dashboard_overview", user_id, <<>>,
               get_dashboard_overview(user_id, tiesInOrder))

GetChartData ==
    \E user_id \in UserPathInputs, chart_type \in ChartTypeInputs :
        Report("get_chart_data", user_id, <<chart_type>>, get_chart_data(user_id, chart_type))

ExportFinancialData ==
    \E user_id \in UserPathInputs, format \in FormatInputs, today \in {now, now + 24} :
        Report("export_financial_data", user_id, <<format>>,
               export_financial_data(user_id, format, today))

GetCategoryStatsReport ==
    \E user_id \in UserPathInputs :
        Report("get_category_stats", user_id, <<>>,
               Reply("get_category_stats", 200, get_category_stats(user_id)))

MonthlyIncomeInputs == {None, Some(2000)}

GetBudgetRecommendation ==
    \E user_id \in UserPathInputs, monthly_income \in MonthlyIncomeInputs :
        Report("get_budget_recommendation", user_id, <<monthly_income>>,
               get_budget_recommendation(user_id, monthly_income))

RiskToleranceInputs == {"moderate", "aggressive", "bold"}

GetInvestmentRecommendations ==
    \E user_id \in UserPathInputs, risk_tolerance \in RiskToleranceInputs :
        Report("get_investment_recommendations", user_id, <<risk_tolerance>>,
               get_investment_recommendations(user_id, risk_tolerance))

GetSavingsGoalsRecommendations ==
    \E user_id \in UserPathInputs :
        Report("get_savings_goals_recommendations", user_id, <<>>,
               get_savings_goals_recommendations(user_id))

GetSpendingOptimization ==
    \E user_id \in UserPathInputs, tiesInOrder \in BOOLEAN :
        Report("get_spending_optimization", user_id, <<>>,
               get_spending_optimization(user_id, tiesInOrder))

NextReports ==
    \/ GetDashboardOverview
    \/ GetChartData
    \/ ExportFinancialData
    \/ GetCategoryStatsReport
    \/ GetBudgetRecommendation
    \/ GetInvestmentRecommendations
    \/ GetSavingsGoalsRecommendations
    \/ GetSpendingOptimization

SpecReports == InitReports /\ [][NextReports]_vars

----------------------------------------------------------------------------
(* Properties *)

\* the create handlers
CreateOps == {"create_transaction", "create_bulk_transactions"}

\* the bodies the last create request submitted
SubmittedBodies == IF request.op = "create_transaction" THEN <<request.body>> ELSE request.body

\* the rows the last create request persisted: the newest rows of the store
PersistedRows ==
    SubSeq(store, Len(store) - Len(SubmittedBodies) + 1, Len(store))

\* the last request was a create request that persisted its rows
Created == request.op \in CreateOps /\ response.status = 200

\* a category was supplied: present and not the empty string
Supplied(category) == category # <<>> /\ category # <<"">>

\* positions of the submitted bodies without a supplied category, in order
Unsupplied ==
    SelectSeq([i \in DOMAIN SubmittedBodies |-> i],
              LAMBDA i : ~Supplied(SubmittedBodies[i].category))

\* the last request was a successful GET /spending
Predicted == response.op = "predict_future_spending" /\ response.status = 200

\* the last request was a successful GET /anomalies
Detected == response.op = "detect_spending_anomalies" /\ response.status = 200

\* the ids of the anomalies of a GET /anomalies response
ReturnedIds(resp) == {resp.body.anomalies[a].transaction_id : a \in DOMAIN resp.body.anomalies}

\* C1: after any sequence of create operations (single and bulk) every stored
\* transaction has an amount between 0 and 1,000,000 inclusive.
C1_StoredAmountsInRange ==
    \A i \in DOMAIN store : 0 <= store[i].amount /\ store[i].amount <= 1000000

\* C2: validate_amount(a) is true exactly when 0 <= a <= 1,000,000, both
\* limits included.
C2_ValidateAmountExact ==
    response.op = "validate_amount" =>
        (response.result <=> (0 <= request.amount /\ request.amount <= 1000000))

\* C2: the upper limit itself has been validated and accepted
C2_Witness ==
    response.op = "validate_amount" /\ request.amount = 1000000 /\ response.result

\* C3: every row persisted by a create request has a category that is not
\* null: the supplied category when one was supplied, with no Categorizer call
\* made for that row, and otherwise the label (or the fallback) the
\* Categorizer call for that row ended with.
C3_CategoryNeverNull ==
    Created =>
        /\ Len(categorizer_calls) = Len(Unsupplied)
        /\ \A i \in DOMAIN SubmittedBodies :
              LET tx == SubmittedBodies[i]
                  row == PersistedRows[i]
              IN  /\ row.category # <<>>
                  /\ Supplied(tx.category) =>
                        /\ row.category = tx.category
                        /\ row.predicted_category = <<>>
                        /\ row.confidence_score = <<>>
                  /\ ~Supplied(tx.category) =>
                        /\ row.category = row.predicted_category
                        /\ row.category[1] \in TrainingLabels \cup {"Other"}

\* C3: one bulk request persisted a row with a supplied category between two
\* rows categorized by the Categorizer
C3_Witness ==
    /\ Created
    /\ request.op = "create_bulk_transactions"
    /\ \E i, j \in DOMAIN SubmittedBodies :
          /\ Supplied(SubmittedBodies[i].category)
          /\ PersistedRows[i].category = SubmittedBodies[i].category
          /\ ~Supplied(SubmittedBodies[j].category)
          /\ PersistedRows[j].category = <<"Bills & Utilities">>

\* C4: when predict_category raises for a transaction without a supplied
\* category, in the single or the bulk create, the request does not fail for
\* it (it fails only when the database commit itself fails) and the row is
\* persisted with category = predicted_category = "Other" and
\* confidence_score 0.5.
C4_FallbackOnException ==
    \A k \in DOMAIN categorizer_calls :
        (categorizer_calls[k].raised # "no" /\ response # Reply(request.op, 500, INTERNAL_SERVER_ERROR)) =>
            /\ Created
            /\ k \in DOMAIN Unsupplied
            /\ LET row == PersistedRows[Unsupplied[k]]
               IN  /\ row.category = <<"Other">>
                   /\ row.predicted_category = <<"Other">>
                   /\ row.confidence_score = <<500>>

\* C4: a bulk create whose first Categorizer call raised while fitting has
\* persisted that row with the fallback values
C4_Witness ==
    /\ request.op = "create_bulk_transactions"
    /\ response.status = 200
    /\ categorizer_calls # <<>>
    /\ categorizer_calls[1].raised = "fit"
    /\ Created
    /\ PersistedRows[Unsupplied[1]].category = <<"Other">>
    /\ PersistedRows[Unsupplied[1]].confidence_score = <<500>>

\* C5: a successful prediction for N >= 0 days on a trained predictor has
\* exactly N daily entries, the i-th one for the date i days after the last
\* spending date.
C5_OneEntryPerDay ==
    (Predicted /\ request.days_ahead >= 0) =>
        LET daily == response.body.predictions.daily_predictions
            spending == SelectSeq(UserRows(request.user_id), LAMBDA t : ~t.is_income)
            last_date == MaxOfSet({spending[i].date : i \in DOMAIN spending})
        IN  /\ Len(daily) = request.days_ahead
            /\ \A i \in DOMAIN daily : daily[i].date = Strftime(PlusDays(last_date, i))

\* C6: every amount of a successful prediction is non-negative: each daily
\* predicted_amount, total_predicted, and every category's predicted_total
\* and daily_average.
C6_AmountsNonNegative ==
    Predicted =>
        LET p == response.body.predictions
        IN  /\ \A i \in DOMAIN p.daily_predictions : p.daily_predictions[i].predicted_amount >= 0
            /\ p.total_predicted >= 0
            /\ \A c \in DOMAIN p.category_breakdown :
                  /\ p.category_breakdown[c].predicted_total_x30 >= 0
                  /\ p.category_breakdown[c].daily_average_x30 >= 0

\* C7: every returned anomaly refers to the row the forest flagged: its
\* transaction_id, amount, description, category and date are those of the
\* row whose features were scored, whatever the order of the input rows.
C7_EntryIsFlaggedRow ==
    Detected =>
        \A a \in DOMAIN response.body.anomalies :
            LET entry == response.body.anomalies[a]
                flagged == UserRows(request.user_id)[entry.flagged_row]
            IN  /\ entry.transaction_id = flagged.id
                /\ entry.amount = flagged.amount
                /\ entry.description = flagged.description
                /\ entry.category = flagged.category
                /\ entry.date = flagged.date

\* C8: a successful GET /anomalies leaves every row whose id it returns with
\* is_anomaly true, and changes nothing else in the store: no row is added or
\* removed, rows outside the returned ids are untouched and no field other
\* than is_anomaly differs.
C8_FlagsOnlyReturnedIds ==
    [][(response'.op = "detect_spending_anomalies" /\ response'.status = 200) =>
          /\ DOMAIN store' = DOMAIN store
          /\ \A i \in DOMAIN store :
                /\ store[i].id \in ReturnedIds(response') => store'[i].is_anomaly
                /\ store[i].id \notin ReturnedIds(response') => store'[i] = store[i]
                /\ store'[i] = [store[i] EXCEPT !.is_anomaly = store'[i].is_anomaly]]_vars

\* C8: a detection has returned some ids, and the store holds flagged rows
\* with those ids next to rows that are not flagged
C8_Witness ==
    /\ Detected
    /\ response.body.anomalies # <<>>
    /\ \E i, j \in DOMAIN store :
          /\ store[i].id \in ReturnedIds(response)
          /\ store[i].is_anomaly
          /\ store[j].id \notin ReturnedIds(response)
          /\ ~store[j].is_anomaly

\* C9: in every step every stored row stays where it is with its id, and a
\* row whose is_anomaly is true keeps it true: rows are never deleted and the
\* flag is never reset.
C9_FlagsAndRowsOnlyGrow ==
    [][/\ Len(store') >= Len(store)
       /\ \A i \in DOMAIN store :
             /\ store'[i].id = store[i].id
             /\ store[i].is_anomaly => store'[i].is_anomaly]_vars

\* C9: a detection run that did not return a row flagged by an earlier run
\* has left that row flagged
C9_Witness ==
    /\ Detected
    /\ \E i \in DOMAIN store :
          /\ store[i].is_anomaly
          /\ store[i].id \notin ReturnedIds(response)

\* C10: the returned anomalies are in ascending order of anomaly_score, every
\* severity is High, Medium or Low and every risk_level is High Risk, Medium
\* Risk or Low Risk.
C10_SortedAndEnumerated ==
    Detected =>
        LET anomalies == response.body.anomalies
        IN  /\ \A i, j \in DOMAIN anomalies :
                  i < j => anomalies[i].anomaly_score <= anomalies[j].anomaly_score
            /\ \A i \in DOMAIN anomalies :
                  /\ anomalies[i].severity \in {"High", "Medium", "Low"}
                  /\ anomalies[i].risk_level \in {"High Risk", "Medium Risk", "Low Risk"}

\* C10: a detection has returned anomalies of two different scores and
\* severities
C10_Witness ==
    /\ Detected
    /\ \E i, j \in DOMAIN response.body.anomalies :
          /\ response.body.anomalies[i].anomaly_score < response.body.anomalies[j].anomaly_score
          /\ response.body.anomalies[i].severity # response.body.anomalies[j].severity

\* the error both classes raise on an untrained instance
NotTrainedError == [raised |-> "ValueError", detail |-> "Model not trained. Call train_model() first."]

\* C11: predict_future_spending or detect_anomalies called on an instance
\* whose model is absent raises the 'Model not trained' error, returns no
\* value, and leaves the instance's model, scaler and feature list as they
\* were.
C11_UntrainedCallRaises ==
    [][/\ (request'.op = "SpendingPredictor.predict_future_spending" /\ predictor.model = <<>>) =>
             /\ response'.result = NotTrainedError
             /\ predictor' = predictor
       /\ (request'.op = "AnomalyDetector.detect_anomalies" /\ anomaly_detector.isolation_forest = <<>>) =>
             /\ response'.result = NotTrainedError
             /\ anomaly_detector' = anomaly_detector]_vars

\* C11: the detector has been trained and asked, while the predictor, never
\* trained, has just refused a call
C11_Witness ==
    /\ request.op = "SpendingPredictor.predict_future_spending"
    /\ response.result = NotTrainedError
    /\ predictor.model = <<>>
    /\ predictor.feature_columns = <<>>
    /\ anomaly_detector.isolation_forest # <<>>

\* the non-income rows of a list of transactions
SpendingOf(rows) == SelectSeq(rows, LAMBDA t : ~t.is_income)

\* a step that answers 400 and changes neither the models nor the store
Refused == response'.status = 400 /\ UNCHANGED <<predictor, anomaly_detector, store>>

\* C12: the prediction endpoints run their models only on enough
\* transactions: POST /train needs at least 10 transactions and 5 spending
\* transactions, GET /spending at least 10 spending transactions, GET
\* /anomalies at least 20 transactions; a request below its minimum is
\* answered with 400 and changes neither the model singletons nor the store.
C12_MinimumsEnforced ==
    [][LET rows == UserRows(request'.user_id)
       IN  /\ request'.op = "train_prediction_models" =>
                 IF Len(rows) >= 10 /\ Len(SpendingOf(rows)) >= 5
                 THEN response'.status # 400 ELSE Refused
           /\ request'.op = "predict_future_spending" =>
                 IF Len(SpendingOf(rows)) >= 10
                 THEN response'.status # 400 ELSE Refused
           /\ request'.op = "detect_spending_anomalies" =>
                 IF Len(rows) >= 20
                 THEN response'.status # 400 ELSE Refused]_vars

\* C12: with 10 to 19 transactions stored and the models trained on them,
\* an anomalies request has been refused
C12_Witness ==
    /\ request.op = "detect_spending_anomalies"
    /\ response.status = 400
    /\ Len(UserRows(request.user_id)) >= 10
    /\ predictor.model # <<>>
    /\ anomaly_detector.isolation_forest # <<>>

\* C13: on a TransactionCategorizer that starts without a model, train_model
\* runs exactly once, in the first predict_category call; every later call
\* finds the model and does not train again.
C13_TrainsOnceOnFirstCall ==
    [][/\ \A k \in DOMAIN categorizer_calls' :
             categorizer_calls'[k].trained <=> (k = 1 /\ categorizer = "None")
       /\ categorizer_calls' # <<>> => categorizer' # "None"
       /\ categorizer # "None" => categorizer' = categorizer]_vars

\* C13: a request has made two calls on an instance that started without a
\* model: the first call trained, the second found the model and did not
C13_Witness ==
    /\ Len(categorizer_calls) >= 2
    /\ categorizer_calls[1].trained
    /\ ~categorizer_calls[2].trained
    /\ categorizer = "fitted"

\* C14: GET /spending and GET /anomalies train their singleton exactly when
\* they find its model absent (a request refused with 400 never looks), a
\* model once set is never absent again, and a singleton that already has a
\* model changes only in POST /train.
C14_LazyTrainingOnlyWhenAbsent ==
    [][/\ request'.op = "predict_future_spending" =>
             IF response'.status # 400 /\ predictor.model = None
             THEN predictor'.model # None
             ELSE predictor' = predictor
       /\ request'.op = "detect_spending_anomalies" =>
             IF response'.status # 400 /\ anomaly_detector.isolation_forest = None
             THEN anomaly_detector'.isolation_forest # None
             ELSE anomaly_detector' = anomaly_detector
       /\ predictor.model # None => predictor'.model # None
       /\ anomaly_detector.isolation_forest # None => anomaly_detector'.isolation_forest # None
       /\ (predictor.model # None /\ predictor' # predictor) =>
             request'.op = "train_prediction_models"
       /\ (anomaly_detector.isolation_forest # None /\ anomaly_detector' # anomaly_detector) =>
             request'.op = "train_prediction_models"]_vars

\* C14: GET /anomalies has trained the detector itself: the predictor, which
\* POST /train would have trained with it, still has no model
C14_Witness ==
    /\ request.op = "detect_spending_anomalies"
    /\ response.status = 200
    /\ anomaly_detector.isolation_forest # None
    /\ predictor.model = None

\* the attributes a request's prediction read were written by different
\* training runs
MixedRuns(used) == used.model # used.scaler \/ used.model # used.feature_columns

C17_NoIncomeRowFlagged ==
    \A i \in DOMAIN store : store[i].is_income => ~store[i].is_anomaly

\* the rows the last dashboard read worked on
ReadIncome == SelectSeq(UserRows(request.user_id), LAMBDA t : t.is_income)

ReadExpenses == SelectSeq(UserRows(request.user_id), LAMBDA t : ~t.is_income)

SavingsTypes == {"high_savings", "low_savings"}

InsightsOfType(types) == SelectSeq(response.result.value, LAMBDA i : i.type \in types)

\* C18: generate_insights emits exactly one high_savings insight reporting
\* the rate when r = (income - expenses) / income * 100 is above 30, exactly
\* one low_savings insight when r is below 10, and no savings insight when
\* 10 <= r <= 30 or the income is 0.
C18_SavingsRateClassified ==
    request.op = "generate_insights" =>
        LET income == AmountSum(ReadIncome)
            saved == AmountSum(ReadIncome) - AmountSum(ReadExpenses)
            expected == IF income <= 0 THEN "none"
                        ELSE IF saved * 10 > 3 * income THEN "high_savings"
                        ELSE IF saved * 10 < income THEN "low_savings"
                        ELSE "none"
        IN  /\ response.result.raised = "no"
            /\ IF expected = "none"
               THEN InsightsOfType(SavingsTypes) = <<>>
               ELSE /\ Len(InsightsOfType(SavingsTypes)) = 1
                    /\ InsightsOfType(SavingsTypes)[1].type = expected
                    /\ InsightsOfType(SavingsTypes)[1].savings_rate_tenths
                          = PercentTenths(saved, income)

\* the sum of the numerators of the percentages of a breakdown, which share
\* the total spending as denominator
PercentageSum(entries) == SumSeq([i \in DOMAIN entries |-> entries[i].percentage[1]])

Distance(a, b) == IF a >= b THEN a - b ELSE b - a

\* C19: when the total spending is above 0, the percentages of the category
\* breakdown of the dashboard and of /categories/stats sum to 100 within one
\* percentage point, and the per-category amounts sum to the total spending
\* (within half a cent per category where the amounts are rounded to cents).
C19_BreakdownSumsToWhole ==
    LET total_spending == AmountSum(ReadExpenses)
    IN  /\ (request.op = "get_category_breakdown" /\ total_spending > 0) =>
              /\ Distance(PercentageSum(response.result), 100 * total_spending) <= total_spending
              /\ SumSeq([i \in DOMAIN response.result |-> response.result[i].amount])
                    = total_spending
        /\ (request.op = "get_category_stats" /\ total_spending > 0) =>
              LET stats == response.result.categories
              IN  /\ Distance(PercentageSum(stats), 100 * total_spending) <= total_spending
                  /\ Distance(SumSeq([i \in DOMAIN stats |-> 10 * stats[i].total]),
                              response.result.total_spending) <= 5 * Len(stats)

\* the calls of a request that returned a (label, confidence) pair
Returned(calls) == SelectSeq(calls, LAMBDA c : c.raised = "no")

SamePair(a, b) == a.label = b.label /\ a.confidence = b.confidence

Refusable(tx) ==
    \/ ~validate_user_id(tx.user_id)
    \/ tx.amount < 0
    \/ tx.amount > AMOUNT_CEILING
    \/ sanitize_input(tx.description, DESCRIPTION_MAX_LEN) = ""

\* C21: create_transaction answers a request whose user id is invalid, whose
\* amount is outside [0, 1,000,000] or whose description is empty after
\* sanitization with 400, persisting nothing and without calling the
\* Categorizer; and a row it persists has a description of at most 200
\* printable characters.
C21_InvalidCreateRejectedWith400 ==
    [][request'.op = "create_transaction" =>
          /\ Refusable(request'.body) =>
                /\ response'.status = 400
                /\ store' = store
                /\ categorizer_calls' = <<>>
          /\ response'.status = 200 =>
                LET description == store'[Len(store')].description
                IN  /\ Len(description) <= DESCRIPTION_MAX_LEN
                    /\ Len(SelectSeq(description, LAMBDA ch : ch \in NonPrintableChars)) = 0]_vars

\* the calls of `client_ip` among `calls` that were admitted
AdmittedCalls(calls, client_ip) ==
    SelectSeq(calls, LAMBDA c : c.client_ip = client_ip /\ c.returned)

\* the calls of `client_ip` admitted less than `window` seconds before t
AdmittedWithin(calls, client_ip, t, window) ==
    SelectSeq(AdmittedCalls(calls, client_ip), LAMBDA c : t - c.time < window)

\* rate_limit_check on its own: a client's admitted calls number at most
\* `limit` in any `window` seconds (the call `limit` places after an admitted
\* one comes at least `window` seconds later) and its list never holds more
\* than `limit` timestamps
RateLimitBound ==
    request.op = "rate_limit_check" =>
        \A ip \in ClientIPs :
            LET admitted == AdmittedCalls(request.calls, ip)
            IN  /\ Len(request_counts[ip]) <= request.limit
                /\ \A k \in DOMAIN admitted :
                      k + request.limit \in DOMAIN admitted =>
                          admitted[k + request.limit].time - admitted[k].time >= request.window

RateLimitBound_Witness ==
    /\ request.op = "rate_limit_check"
    /\ request.limit = 2
    /\ \E ip \in ClientIPs :
          /\ Len(AdmittedCalls(request.calls, ip)) = 3
          /\ Len(request.calls) = MaxRequests
          /\ ~request.calls[3].returned

\* C22: a request to create_transaction goes through rate_limit_check: it is
\* admitted, which leaves its timestamp among the at most `limit` (100)
\* timestamps kept for its client, or it is answered 429 and creates no
\* transaction.
C22_CreateIsRateLimited ==
    [][request'.op = "create_transaction" =>
          /\ \A ip \in ClientIPs : Len(request_counts'[ip]) <= RATE_LIMIT
          /\ \/ /\ response'.status = 429
                /\ store' = store
             \/ \E ip \in ClientIPs :
                   /\ request_counts'[ip] # <<>>
                   /\ request_counts'[ip][Len(request_counts'[ip])] = now']_vars

\* C23: whether rate_limit_check admits a call depends only on the calls of
\* the same client it admitted less than `window` seconds earlier: a rejected
\* call leaves no timestamp and does not prolong the block, a client at the
\* limit is admitted again once its oldest admitted call is `window` seconds
\* old, and a call leaves the lists of the other clients alone.
C23_RejectedCallsLeaveNoTrace ==
    [][request'.op = "rate_limit_check" =>
          LET call == request'.calls[Len(request'.calls)]
              earlier == IF request.op = "none" THEN <<>> ELSE request.calls
              recent == AdmittedWithin(earlier, call.client_ip, call.time, request'.window)
          IN  /\ call.returned <=> Len(recent) < request'.limit
              /\ ~call.returned =>
                    Len(request_counts'[call.client_ip]) <= Len(request_counts[call.client_ip])
              /\ \A ip \in ClientIPs \ {call.client_ip} :
                    request_counts'[ip] = request_counts[ip]]_vars

\* C23: a client at the limit was rejected, another client called, and the
\* first client was admitted again exactly `window` seconds after its oldest
\* admitted call
C23_Witness ==
    /\ request.op = "rate_limit_check"
    /\ Len(request.calls) = 4
    /\ LET calls == request.calls
       IN  /\ calls[1].returned
           /\ calls[2].client_ip = calls[1].client_ip
           /\ ~calls[2].returned
           /\ calls[3].client_ip # calls[1].client_ip
           /\ calls[3].returned
           /\ calls[4].client_ip = calls[1].client_ip
           /\ calls[4].returned
           /\ calls[4].time = calls[1].time + request.window
           /\ calls[2].time > calls[1].time

\* the score the risk tier is read from: 2 for an amount above 1000, else 1
\* for an amount above 500, plus one per reason, plus one when the night
\* reason is among them
RiskScore(amount, reasons) ==
    (IF amount > 1000 THEN 2 ELSE IF amount > 500 THEN 1 ELSE 0)
    + Len(reasons)
    + (IF \E i \in DOMAIN reasons : reasons[i] = RuleReasons[2] THEN 1 ELSE 0)

\* C24: the risk tier is 'High Risk' for a score of 4 or more, 'Medium Risk'
\* for 2 or 3 and 'Low Risk' below; the severity is 'High' for an anomaly
\* score below -0.5, 'Medium' from -0.5 up to but not including -0.3, and
\* 'Low' from -0.3 on.
C24_RiskTierAndSeverity ==
    response.op = "assess" =>
        LET score == RiskScore(request.transaction.amount, request.reasons)
        IN  /\ response.risk_level = (IF score >= 4 THEN "High Risk"
                                      ELSE IF score >= 2 THEN "Medium Risk" ELSE "Low Risk")
            /\ response.severity = (IF request.anomaly_score < -50 THEN "High"
                                    ELSE IF request.anomaly_score < -30 THEN "Medium" ELSE "Low")

\* C24: a row of exactly 500 with the night reason alone is Medium Risk by
\* the night point, and a score of exactly -0.5 is Medium
C24_Witness ==
    /\ response.op = "assess"
    /\ request.transaction.amount = 500
    /\ request.reasons = <<RuleReasons[2]>>
    /\ request.anomaly_score = -50
    /\ response.risk_level = "Medium Risk"
    /\ response.severity = "Medium"

\* the feature rows create_features builds from `rows` sorted in `order`
FeatureRows(rows, order) ==
    [k \in DOMAIN order |-> DetectorFeatures([j \in DOMAIN order |-> rows[order[j]]], order, k)]

\* the reasons the two population rules give for the feature row f of `features`
QuantileReasons(f, features) ==
    (IF AboveQuantile95(f.transactions_per_day,
                        [k \in DOMAIN features |-> features[k].transactions_per_day])
     THEN {RuleReasons[4]} ELSE {})
    \cup
    (IF AboveQuantile95(Abs(f.spending_acceleration),
                        [k \in DOMAIN features |-> features[k].spending_acceleration])
     THEN {RuleReasons[5]} ELSE {})

\* C25: every anomaly a detection returns has at least one reason, and its
\* reasons include 'Unusually high number of transactions in one day' when
\* the flagged row's same-day count is above the 95th percentile of the
\* analysed rows, and 'Sudden change in spending pattern' when its absolute
\* spending acceleration is.
C25_QuantileRulesApplied ==
    Detected =>
        LET rows == UserRows(request.user_id)
        IN  \E order \in SortedOrders(rows) :
                \A a \in DOMAIN response.body.anomalies :
                    LET entry == response.body.anomalies[a]
                        features == FeatureRows(rows, order)
                        f == CHOOSE f \in Range(features) : f.source = entry.flagged_row
                    IN  /\ entry.reasons # <<>>
                        /\ QuantileReasons(f, features) \subseteq Range(entry.reasons)

\* the sum of monthly_needed over the goals marked 'recommended'
RECURSIVE RecommendedSum(_)
RecommendedSum(goals) ==
    IF goals = <<>> THEN Zero
    ELSE IF Head(goals).status = "recommended"
    THEN RAdd(Head(goals).monthly_needed, RecommendedSum(Tail(goals)))
    ELSE RecommendedSum(Tail(goals))

\* the last request was a savings-goals request that got as far as the plan,
\* for a user with spending rows
Planned ==
    /\ request.op = "get_savings_goals_recommendations"
    /\ response.status # 400
    /\ SpendingRows(UserRows(request.user_id)) # <<>>

\* the goals are listed in ascending priority and marked greedily within the
\* surplus; without a surplus every goal is a stretch goal and the strategy
\* is 'expense_reduction_first'
GreedyWithinSurplus(recommendations) ==
    LET goals == recommendations.savings_goals
        surplus == recommendations.user_profile.monthly_surplus.value
    IN  /\ \A i, j \in DOMAIN goals : i < j => goals[i].priority <= goals[j].priority
        /\ \A i \in DOMAIN goals :
              goals[i].status = "recommended" <=>
                  /\ RLess(Zero, surplus)
                  /\ RLeq(RAdd(RecommendedSum(SubSeq(goals, 1, i - 1)), goals[i].monthly_needed),
                          surplus)
        /\ RecommendedSum(goals) # Zero => RLeq(RecommendedSum(goals), surplus)
        /\ ~RLess(Zero, surplus) =>
              /\ \A i \in DOMAIN goals : goals[i].status = "stretch_goal"
              /\ recommendations.recommended_strategy.strategy = "expense_reduction_first"

\* C26: the savings-goals plan lists the goals in ascending priority, marks
\* them 'recommended' greedily so that their monthly_needed sums to no more
\* than the monthly surplus, makes every goal a 'stretch_goal' under the
\* strategy 'expense_reduction_first' when there is no surplus, and every
\* adjusted_timeline_months it holds is a finite positive number.
C26_SavingsGoalsPlan ==
    Planned =>
        LET recommendations == savings_goals_recommendations(UserRows(request.user_id))
            goals == recommendations.savings_goals
        IN  /\ GreedyWithinSurplus(recommendations)
            /\ \A i \in DOMAIN goals :
                  goals[i].adjusted_timeline_months # None =>
                      /\ goals[i].adjusted_timeline_months[1].float = "finite"
                      /\ RLess(Zero, goals[i].adjusted_timeline_months[1].value)

\* the reporting handlers
ReportOps ==
    {"get_dashboard_overview", "get_chart_data", "export_financial_data", "get_category_stats",
     "get_budget_recommendation", "get_investment_recommendations",
     "get_savings_goals_recommendations", "get_spending_optimization"}

\* the aggregates of an answer: the answer without the time it was made at
\* (export_date and the date in the export's file name) and without the
\* order in which categories of equal totals are listed
Aggregates(resp) ==
    IF resp.status # 200 THEN [status |-> resp.status, body |-> resp.body]
    ELSE IF resp.op = "export_financial_data"
    THEN [format |-> resp.body.format, data |-> resp.body.data]
    ELSE IF resp.op = "get_dashboard_overview" /\ "charts" \in DOMAIN resp.body
    THEN [overview |-> resp.body.overview,
          monthly_trends |-> resp.body.charts.monthly_trends,
          spending_timeline |-> resp.body.charts.spending_timeline,
          category_breakdown |-> Range(resp.body.charts.category_breakdown),
          insights |-> resp.body.insights]
    ELSE IF resp.op = "get_spending_optimization"
    THEN [total_spending |-> resp.body.spending_analysis.total_spending,
          transaction_count |-> resp.body.spending_analysis.transaction_count,
          top_categories |-> Range(resp.body.spending_analysis.top_categories),
          category_insights |-> Range(resp.body.category_insights),
          optimization_opportunities |-> Range(resp.body.optimization_opportunities),
          trend_analysis |-> resp.body.trend_analysis]
    ELSE [body |-> resp.body]

----------------------------------------------------------------------------
(* Two users with histories of their own, and the three prediction handlers
   on the module's two singletons *)

OtherUser == "u2"

\* the rows a second user has uploaded: n rows, one per day at noon, the
\* oldest an income row, the others spending in two categories of their own
\* and of smaller amounts than the first user's
OtherHistory(n) ==
    [i \in 1..n |->
        [user_id |-> OtherUser,
         amount |-> IF i % 4 = 0 THEN 450 ELSE 300,
         description |-> "c",
         category |-> IF i = n THEN Some("Income")
                      ELSE IF i % 2 = 0 THEN Some("Travel") ELSE Some("Healthcare"),
         date |-> (n - i) * 24 + 12,
         is_income |-> (i = n)]]

OtherHistoryLengths == {12, 22}

OtherRows(n, nextId) == (CHOOSE r \in BulkResults(OtherHistory(n), "None", nextId) : TRUE).rows

InitUsers ==
    /\ \E n \in OtherHistoryLengths : store = HistoryRows(20) \o OtherRows(n, 21)
    /\ categorizer = "None"
    /\ predictor = [model |-> None,
                    scaler |-> [fitted |-> FALSE, n_features_in_ |-> 0, n_samples_seen_ |-> 0],
                    feature_columns |-> <<>>]
    /\ anomaly_detector = [isolation_forest |-> None,
                           scaler |-> [fitted |-> FALSE, n_features_in_ |-> 0, n_samples_seen_ |-> 0],
                           feature_columns |-> <<>>]
    /\ request_counts = [ip \in ClientIPs |-> <<>>]
    /\ now = 0
    /\ request = [op |-> "none"]
    /\ categorizer_calls = <<>>
    /\ response = Reply("none", 0, [detail |-> ""])
    /\ bulk_count = 0

NextUsers ==
    \/ TrainPredictionModels
    \/ PredictFutureSpending
    \/ DetectSpendingAnomalies

SpecUsers == InitUsers /\ [][NextUsers]_vars

\* the frames the three handlers build from a user's rows
SpendingFrames(user_id) ==
    LET spending == SelectSeq(UserRows(user_id), LAMBDA t : ~t.is_income)
    IN  {Frame(<<"id", "user_id", "amount", "description", "category", "date", "is_income">>, spending),
         Frame(<<"amount", "description", "category", "date">>, spending)}

DetectionFrames(user_id) ==
    {Frame(<<"id", "user_id", "amount", "description", "category", "date", "is_income">>,
           SelectSeq(UserRows(user_id), LAMBDA t : ~t.is_income)),
     Frame(<<"id", "amount", "description", "category", "date", "is_income">>, UserRows(user_id))}

\* the predictor is as a training on one of the user's frames leaves it
PredictorFittedOn(self, user_id) ==
    \E df \in SpendingFrames(user_id) :
        /\ df.rows # <<>>
        /\ \E fit \in RegressorFits(df) : self = SpendingPredictor_train_model(self, df, fit)

\* the detector is as a training on one of the user's frames leaves it
DetectorFittedOn(self, user_id) ==
    \E df \in DetectionFrames(user_id), forest \in Forests :
        self = AnomalyDetector_train_model(self, df, forest)

\* C28: a forecast or an anomaly list answered for user U was computed by a
\* model, scaler and feature list fitted on U's own transactions, whatever
\* requests for other users came before.
C28_ModelFittedOnOwnData ==
    /\ (response.op = "predict_future_spending" /\ response.status = 200)
           => PredictorFittedOn(predictor, request.user_id)
    /\ (response.op = "detect_spending_anomalies" /\ response.status = 200)
           => DetectorFittedOn(anomaly_detector, request.user_id)

----------------------------------------------------------------------------
(* train_model with a call that raises.  train_model assigns
   self.feature_columns (inside prepare_training_data / prepare_features),
   then fits self.scaler, then assigns a new estimator to the model
   attribute, then fits it; nothing in it catches an exception, and the
   handlers catch it only to answer 500. *)

\* the call of train_model that raises, if any
FailurePoints == {"none", "create_features", "fit_transform", "fit"}

PREDICTOR_RAISED == "SpendingPredictor.train_model"

DETECTOR_RAISED == "AnomalyDetector.train_model"

\* len() of an estimator that was never fitted
NO_ESTIMATORS == "object has no attribute 'estimators_'"

\* SpendingPredictor.train_model: the instance it leaves when the call
\* `fail` raises
SpendingPredictor_train_model_raising(self, df, fit, fail) ==
    LET done == SpendingPredictor_train_model(self, df, fit)
    IN  IF fail = "create_features" THEN self
        ELSE IF fail = "fit_transform"
        THEN [self EXCEPT !.feature_columns = done.feature_columns]
        ELSE IF fail = "fit" THEN [done EXCEPT !.model = Some(UNFITTED)]
        ELSE done

\* AnomalyDetector.train_model: the instance it leaves when the call `fail`
\* raises
AnomalyDetector_train_model_raising(self, df, forest, fail) ==
    LET done == AnomalyDetector_train_model(self, df, forest)
    IN  IF fail = "create_features" THEN self
        ELSE IF fail = "fit_transform"
        THEN [self EXCEPT !.feature_columns = done.feature_columns]
        ELSE IF fail = "fit" THEN [done EXCEPT !.isolation_forest = Some(UNFITTED)]
        ELSE done

\* GET /api/predictions/spending/{user_id}, the training it starts raising
\* at `fail`
api_predict_future_spending_raising(user_id, days_ahead, fit, fail) ==
    LET transactions == SelectSeq(UserRows(user_id), LAMBDA t : ~t.is_income)
        df == Frame(<<"amount", "description", "category", "date">>, transactions)
    IN  IF \/ BelowMinimum(Len(transactions), MIN_PREDICT_TRANSACTIONS)
           \/ /\ predictor.model # Some(UNFITTED)
              /\ (fail = "none" \/ ~ModelAbsent(predictor.model))
        THEN api_predict_future_spending(user_id, days_ahead, fit)
        ELSE /\ request' = [op |-> "predict_future_spending", user_id |-> user_id,
                            days_ahead |-> days_ahead]
             /\ categorizer_calls' = <<>>
             /\ UNCHANGED <<store, categorizer, anomaly_detector, request_counts, now, bulk_count>>
             /\ IF predictor.model = Some(UNFITTED)
                THEN /\ UNCHANGED predictor
                     /\ response' = Reply("predict_future_spending", 500,
                                          [detail |-> <<"Prediction failed: ", NO_ESTIMATORS>>])
                ELSE /\ predictor' = SpendingPredictor_train_model_raising(predictor, df, fit, fail)
                     /\ response' = Reply("predict_future_spending", 500,
                                          [detail |-> <<"Prediction failed: ", PREDICTOR_RAISED>>])

PredictFutureSpendingRaising ==
    \E user_id \in UserPathInputs, days_ahead \in DaysAheadInputs, fail \in FailurePoints :
        \E fit \in (IF ModelAbsent(predictor.model) THEN PredictFits(user_id)
                    ELSE {predictor.model[1]}) :
            api_predict_future_spending_raising(user_id, days_ahead, fit, fail)

\* GET /api/predictions/anomalies/{user_id}, the training it starts raising
\* at `fail`
detect_spending_anomalies_raising(user_id, transactions, forest, order, db, fail) ==
    LET df == Frame(<<"id", "amount", "description", "category", "date", "is_income">>, transactions)
    IN  IF \/ BelowMinimum(Len(transactions), MIN_ANOMALY_TRANSACTIONS)
           \/ /\ anomaly_detector.isolation_forest # Some(UNFITTED)
              /\ (fail = "none" \/ ~ModelAbsent(anomaly_detector.isolation_forest))
        THEN detect_spending_anomalies(user_id, transactions, forest, order, db)
        ELSE /\ request' = [op |-> "detect_spending_anomalies", user_id |-> user_id]
             /\ categorizer_calls' = <<>>
             /\ UNCHANGED <<store, categorizer, predictor, request_counts, now, bulk_count>>
             /\ IF anomaly_detector.isolation_forest = Some(UNFITTED)
                THEN /\ UNCHANGED anomaly_detector
                     /\ response' = Reply("detect_spending_anomalies", 500,
                                          [detail |-> <<"Anomaly detection failed: ", NO_ESTIMATORS>>])
                ELSE /\ anomaly_detector' =
                            AnomalyDetector_train_model_raising(anomaly_detector, df, forest, fail)
                     /\ response' = Reply("detect_spending_anomalies", 500,
                                          [detail |-> <<"Anomaly detection failed: ", DETECTOR_RAISED>>])

DetectSpendingAnomaliesRaising ==
    \E user_id \in UserPathInputs, fail \in FailurePoints :
        \E transactions \in {UserRows(user_id)} :
            \E forest \in (IF ModelAbsent(anomaly_detector.isolation_forest) THEN Forests
                           ELSE {anomaly_detector.isolation_forest[1]}) :
                \E order \in SortedOrders(transactions), db \in CommitOutcomes :
                    detect_spending_anomalies_raising(user_id, transactions, forest, order, db, fail)

\* POST /api/predictions/train/{user_id}, train_model of `failing` raising at
\* `fail`: the predictor is trained first, the detector after it
train_prediction_models_raising(user_id, fit, forest, failing, fail) ==
    LET transactions == UserRows(user_id)
        df == Frame(<<"id", "user_id", "amount", "description", "category", "date", "is_income">>,
                    transactions)
        spending_df == Frame(df.columns, SelectSeq(df.rows, LAMBDA t : ~t.is_income))
    IN  IF \/ BelowMinimum(Len(transactions), MIN_TRAIN_TRANSACTIONS)
           \/ BelowMinimum(Len(spending_df.rows), MIN_TRAIN_SPENDING)
           \/ failing = "none"
        THEN train_prediction_models(user_id, fit, forest)
        ELSE /\ request' = [op |-> "train_prediction_models", user_id |-> user_id]
             /\ categorizer_calls' = <<>>
             /\ UNCHANGED <<store, categorizer, request_counts, now, bulk_count>>
             /\ fit \in RegressorFits(spending_df)
             /\ IF failing = "predictor"
                THEN /\ predictor' =
                            SpendingPredictor_train_model_raising(predictor, spending_df, fit, fail)
                     /\ UNCHANGED anomaly_detector
                     /\ response' = Reply("train_prediction_models", 500,
                                          [detail |-> <<"Training failed: ", PREDICTOR_RAISED>>])
                ELSE /\ predictor' = SpendingPredictor_train_model(predictor, spending_df, fit)
                     /\ anomaly_detector' =
                            AnomalyDetector_train_model_raising(anomaly_detector, spending_df,
                                                                forest, fail)
                     /\ response' = Reply("train_prediction_models", 500,
                                          [detail |-> <<"Training failed: ", DETECTOR_RAISED>>])

TrainPredictionModelsRaising ==
    \E user_id \in UserPathInputs, forest \in Forests,
       failing \in {"none", "predictor", "anomaly_detector"}, fail \in FailurePoints \ {"none"} :
        \E fit \in TrainFits(user_id) :
            train_prediction_models_raising(user_id, fit, forest, failing, fail)

\* the prediction endpoints on a table that holds twenty rows of the user
InitTrain ==
    /\ store \in {HistoryRows(20), Reversed(HistoryRows(20))}
    /\ categorizer = "None"
    /\ predictor = [model |-> None,
                    scaler |-> [fitted |-> FALSE, n_features_in_ |-> 0, n_samples_seen_ |-> 0],
                    feature_columns |-> <<>>]
    /\ anomaly_detector = [isolation_forest |-> None,
                           scaler |-> [fitted |-> FALSE, n_features_in_ |-> 0, n_samples_seen_ |-> 0],
                           feature_columns |-> <<>>]
    /\ request_counts = [ip \in ClientIPs |-> <<>>]
    /\ now = 0
    /\ request = [op |-> "none"]
    /\ categorizer_calls = <<>>
    /\ response = Reply("none", 0, [detail |-> ""])
    /\ bulk_count = 0

NextTrain ==
    \/ TrainPredictionModelsRaising
    \/ PredictFutureSpendingRaising
    \/ DetectSpendingAnomaliesRaising

SpecTrain == InitTrain /\ [][NextTrain]_vars

\* the step was answered 500 because train_model of the named class raised
TrainingRaised(name) ==
    /\ response'.op \in {"train_prediction_models", "predict_future_spending",
                         "detect_spending_anomalies"}
    /\ response'.status = 500
    /\ response'.body.detail[2] = name

\* C29: when train_model of the predictor or of the detector raises
\* part-way, the instance is left as it was before the attempt, model, scaler
\* and feature list alike; so a first training that fails leaves the model
\* absent.
C29_FailedTrainingLeavesInstance ==
    [][/\ TrainingRaised(PREDICTOR_RAISED) => predictor' = predictor
       /\ TrainingRaised(DETECTOR_RAISED) => anomaly_detector' = anomaly_detector]_vars

\* the feature vector predict_future_spending builds for a future date from
\* the user's spending rows, each slot named by the quantity put there
FutureFeatureNames(self, user_id) ==
    LET transactions == SelectSeq(UserRows(user_id), LAMBDA t : ~t.is_income)
        df == Frame(<<"amount", "description", "category", "date">>, transactions)
        recent_df == Frame(df.columns, TailN(df.rows, TAIL_ROWS))
        df_features == Frame(PredictorFeatureFrameColumns(recent_df), recent_df.rows)
        last_date == MaxOfSet({df.rows[i].date : i \in DOMAIN df.rows})
    IN  create_future_features(self, df_features, PlusDays(last_date, 1))

\* C30: a forecast or an anomaly detection on a trained instance leaves its
\* model, scaler and ordered feature list as the last training left them,
\* and the feature vector built for a future date has the length and the
\* positional order of the feature list recorded at fit time.
C30_PredictionKeepsFittedState ==
    [][/\ (response'.op = "predict_future_spending" /\ response'.status = 200) =>
              /\ ~ModelAbsent(predictor.model) => predictor' = predictor
              /\ request'.days_ahead >= 1 =>
                     FutureFeatureNames(predictor', request'.user_id) = predictor'.feature_columns
       /\ (response'.op = "detect_spending_anomalies" /\ response'.status = 200) =>
              (~ModelAbsent(anomaly_detector.isolation_forest) =>
                     anomaly_detector' = anomaly_detector)]_vars

\* the frame half of C30 alone
PredictionLeavesInstance ==
    [][/\ (response'.op = "predict_future_spending" /\ response'.status = 200
           /\ ~ModelAbsent(predictor.model)) => predictor' = predictor
       /\ (response'.op = "detect_spending_anomalies" /\ response'.status = 200
           /\ ~ModelAbsent(anomaly_detector.isolation_forest)) =>
              anomaly_detector' = anomaly_detector]_vars

====
